---------------------------- MODULE Spec2Model ----------------------------
(***************************************************************************)
(* Athena_Invest: the classic status classifier (ClassicAnalyzer) and the  *)
(* technical scoring engine (TechnicalAnalyzer).                           *)
(*                                                                         *)
(* Numbers.  Prices, averages and indicator values are integers.  Every    *)
(* percentage the code computes as (a / b) * 100 is kept as the exact      *)
(* fraction [n |-> a * 100, d |-> b] with d > 0 and compared by cross      *)
(* multiplication, so a threshold is hit exactly when the code's float     *)
(* arithmetic hits it on the values used here (multiples of 1/200).        *)
(* A float that is not-a-number is the value NaN; a comparison with NaN is *)
(* false, as in Python.  An optional value that is None is NoneVal.        *)
(*                                                                         *)
(* Series.  TA-Lib computes the indicator columns; the model takes their   *)
(* values as inputs and keeps what the code depends on: a column is        *)
(* undefined at the positions before its lookback is filled.               *)
(***************************************************************************)
EXTENDS Integers, Sequences, FiniteSets, TLC

VARIABLES
    pc,         \* position of the analysis pass
    nbars,      \* number of bars the data provider returned (0 when the frame was handed in directly)
    cdf,        \* the frame ClassicAnalyzer.analyze_classic reads (sequence of rows)
    analysis,   \* what analyze / analyze_classic produced: a result or a raised error
    tdf,        \* the frame TechnicalAnalyzer.calculate_score reads
    score_out,  \* what calculate_score produced: (score, summary) or a raised error
    date_read,  \* the date the clock showed when format_output read it
    narrative,  \* the text format_output returned, or the text handed to the notifier: its lines
    embed,      \* what _create_analysis_embed returned
    program,    \* the batch entry point that runs: "main", "main_classic", send_batch_analysis alone, or none
    feed,       \* what the data provider answers to the request made for each position of the batch
    loop_i,     \* the position in TICKERS the batch loop works on next
    results,    \* the list `results` of main
    discord_analyses,  \* the list `discord_analyses` of main_classic, or the list handed to send_batch_analysis
    loop_locals,       \* the variables of main that outlive an iteration: the frame and the result last bound
    discord_notifier,  \* the notifier of main_classic: whether it was constructed, its default webhook URL,
                       \* and how the webhook answers each request
    delivery,   \* what send_batch_analysis did and returned
    TARGET_CHANNEL_ID,  \* the channel the bot is restricted to ("" when DISCORD_CHANNEL_ID is not set)
    messages,   \* the message each call of on_message was started with
    handler,    \* where each call of on_message stands: the await it is suspended at, the error it handles
    frames,     \* the local variables of each call of on_message that live across an await
    outputs     \* what each call did in the channel: its status message, the embeds it sent, its API calls

pass_vars == <<pc, nbars, cdf, analysis, tdf, score_out, date_read, narrative, embed>>
batch_vars == <<program, feed, loop_i, results, discord_analyses, loop_locals, discord_notifier, delivery>>
bot_vars == <<TARGET_CHANNEL_ID, messages, handler, frames, outputs>>
vars == <<pass_vars, batch_vars, bot_vars>>

---------------------------------------------------------------------------
(* Configuration constants: technical_config.py and classic_config.py *)

SMA_PERIOD == 150
EMA_PERIOD == 50
RSI_PERIOD == 14
CCI_PERIOD == 20
BBANDS_PERIOD == 20
VOLUME_MA_PERIOD == 20
SMA_CROSSOVER_PCT == 5
SCORE_SMA_CROSSOVER == 3
SCORE_SMA_ESTABLISHED == 1
SCORE_EMA_ABOVE == 2
SCORE_RSI_OPTIMAL == 2
SCORE_VOLUME_HIGH == 1
SCORE_CCI_STRONG == 2
PENALTY_RSI_EXTREME == -2
PENALTY_BBANDS_OVEREXTENDED == -2
RSI_OPTIMAL_LOW == 40
RSI_OPTIMAL_HIGH == 65
RSI_OVERSOLD == 30
RSI_OVERBOUGHT == 70
CCI_STRONG_LOW == 100
CCI_STRONG_HIGH == 200
MAX_SCORE == 10

ATR_PERIOD == 14
RESISTANCE_LOOKBACK == 30
EXTENSION_THRESHOLD == 20
ATR_WARNING_THRESHOLD == 5
ATR_SEVERE_THRESHOLD == 8
SMA_SLOPE_LOOKBACK == 10
\* 0.5, as the fraction 1/2
SMA_SLOPE_FLAT_THRESHOLD == [n |-> 1, d |-> 2]
MIN_DATA_POINTS == 150
\* the literal of _determine_status: abs(distance_from_sma) < 5
ACCUMULATION_BAND == 5
\* the literal of _generate_explanation: abs(distance) < 2
IRON_FLOOR_BAND == 2

---------------------------------------------------------------------------
(* Values *)

\* float('nan'): pd.isna / pd.notna test for it
NaN == -999999
\* Python's None for an optional number
NoneVal == -888888

isna(x) == x = NaN
notna(x) == x # NaN

\* Python comparisons of floats: false when either side is NaN
Gt(a, b) == notna(a) /\ notna(b) /\ a > b

\* exact fractions, d > 0
Frac(a, b) == [n |-> a, d |-> b]
Whole(k) == [n |-> k, d |-> 1]
FracLt(x, y) == x.n * y.d < y.n * x.d
FracLe(x, y) == x.n * y.d <= y.n * x.d
FracGt(x, y) == FracLt(y, x)
FracGe(x, y) == FracLe(y, x)
FracAbs(x) == [n |-> IF x.n < 0 THEN -x.n ELSE x.n, d |-> x.d]
\* an undefined percentage (atr_pct = None)
NoFrac == [n |-> NoneVal, d |-> 1]

Max(a, b) == IF a >= b THEN a ELSE b
Min(a, b) == IF a <= b THEN a ELSE b

RECURSIVE SumSeq(_)
SumSeq(s) == IF s = <<>> THEN 0 ELSE Head(s) + SumSeq(Tail(s))

\* df.tail(k)
TailRows(df, k) == SubSeq(df, Max(1, Len(df) - k + 1), Len(df))


---------------------------------------------------------------------------
(* Frames of the classic analyzer: rows with Close, High, SMA_150, ATR *)

\* One frame of `len` rows whose first row is bar number `first` of the series.
\* talib.SMA leaves SMA_150 undefined before bar SMA_PERIOD, and talib.ATR
\* leaves ATR undefined before bar ATR_PERIOD + 1.  hp gives the High column:
\* hp.last for the last row, hp.old for the first row of a longer frame,
\* hp.mid for the rows between; and hp.past_close, the Close of the rows before
\* the last one.
ClassicFrame(len, first, close, sma, past_sma, atr, hp) ==
    [i \in 1..len |->
        LET bar == first + i - 1 IN
        [Close   |-> IF i = len THEN close ELSE hp.past_close,
         High    |-> IF i = len THEN hp.last ELSE IF i = 1 THEN hp.old ELSE hp.mid,
         SMA_150 |-> IF bar < SMA_PERIOD THEN NaN
                     ELSE IF i = len THEN sma ELSE past_sma,
         ATR     |-> IF bar < ATR_PERIOD + 1 THEN NaN ELSE atr]]

\* a slip that would count a change of exactly the threshold as flat
_calculate_sma_slope_le(df) ==
    IF Len(df) < SMA_SLOPE_LOOKBACK + 1 THEN "unknown"
    ELSE
        LET current_sma == df[Len(df)].SMA_150
            past_sma == df[Len(df) - (SMA_SLOPE_LOOKBACK + 1) + 1].SMA_150
        IN  IF isna(current_sma) \/ isna(past_sma) THEN "unknown"
            ELSE
                LET slope_pct == Frac((current_sma - past_sma) * 100, past_sma)
                IN  IF FracLe(FracAbs(slope_pct), SMA_SLOPE_FLAT_THRESHOLD) THEN "flat"
                    ELSE IF slope_pct.n < 0 THEN "declining"
                    ELSE "rising"

\* ClassicAnalyzer._calculate_sma_slope
_calculate_sma_slope(df) ==
    IF Len(df) < SMA_SLOPE_LOOKBACK + 1 THEN "unknown"
    ELSE
        LET current_sma == df[Len(df)].SMA_150
            past_sma == df[Len(df) - (SMA_SLOPE_LOOKBACK + 1) + 1].SMA_150
        IN  IF isna(current_sma) \/ isna(past_sma) THEN "unknown"
            ELSE
                LET slope_pct == Frac((current_sma - past_sma) * 100, past_sma)
                IN  IF FracLt(FracAbs(slope_pct), SMA_SLOPE_FLAT_THRESHOLD) THEN "flat"
                    ELSE IF slope_pct.n < 0 THEN "declining"
                    ELSE "rising"

\* a slip that would search the whole frame instead of its tail
_find_local_resistance_all(df) ==
    LET valid_highs == {df[i].High : i \in {j \in 1..Len(df) : notna(df[j].High)}}
    IN  IF valid_highs = {} THEN NoneVal
        ELSE CHOOSE h \in valid_highs : \A g \in valid_highs : g <= h

\* a slip that would leave the last bar out of the window
_find_local_resistance_before_last(df) ==
    LET lookback == IF Len(df) < RESISTANCE_LOOKBACK THEN Len(df) ELSE RESISTANCE_LOOKBACK
        recent_data == SubSeq(TailRows(df, lookback), 1, lookback - 1)
        valid_highs == {recent_data[i].High : i \in {j \in 1..Len(recent_data) : notna(recent_data[j].High)}}
    IN  IF valid_highs = {} THEN NoneVal
        ELSE CHOOSE h \in valid_highs : \A g \in valid_highs : g <= h

\* ClassicAnalyzer._find_local_resistance
_find_local_resistance(df) ==
    LET lookback == IF Len(df) < RESISTANCE_LOOKBACK THEN Len(df) ELSE RESISTANCE_LOOKBACK
        recent_data == TailRows(df, lookback)
        valid_highs == {recent_data[i].High : i \in {j \in 1..Len(recent_data) : notna(recent_data[j].High)}}
    IN  IF valid_highs = {} THEN NoneVal
        ELSE CHOOSE h \in valid_highs : \A g \in valid_highs : g <= h

\* a slip that would test the extension before the trend sign
_determine_status_stretched_first(is_positive, sma_slope, is_extended, distance_from_sma) ==
    IF is_extended THEN "stretched"
    ELSE IF ~is_positive THEN "breakdown"
    ELSE IF sma_slope = "declining" \/ sma_slope = "flat" THEN "stagnation"
    ELSE IF FracLt(FracAbs(distance_from_sma), Whole(ACCUMULATION_BAND)) THEN "accumulation"
    ELSE "breakout"

\* a slip that would leave a slope label other than the three named ones unmatched
_determine_status_no_default(is_positive, sma_slope, is_extended, distance_from_sma) ==
    IF ~is_positive THEN "breakdown"
    ELSE IF is_extended /\ FracGt(distance_from_sma, Whole(EXTENSION_THRESHOLD)) THEN "stretched"
    ELSE IF sma_slope = "declining" \/ sma_slope = "flat" THEN "stagnation"
    ELSE IF sma_slope = "rising"
    THEN (IF FracLt(FracAbs(distance_from_sma), Whole(ACCUMULATION_BAND)) THEN "accumulation"
          ELSE "breakout")
    ELSE "None"

\* a slip that would make the accumulation band inclusive
_determine_status_band_le(is_positive, sma_slope, is_extended, distance_from_sma) ==
    IF ~is_positive THEN "breakdown"
    ELSE IF is_extended /\ FracGt(distance_from_sma, Whole(EXTENSION_THRESHOLD)) THEN "stretched"
    ELSE IF sma_slope = "declining" \/ sma_slope = "flat" THEN "stagnation"
    ELSE IF FracLe(FracAbs(distance_from_sma), Whole(ACCUMULATION_BAND)) THEN "accumulation"
    ELSE "breakout"

\* a slip that would test the slope of the average before the extension
_determine_status_slope_first(is_positive, sma_slope, is_extended, distance_from_sma) ==
    IF ~is_positive THEN "breakdown"
    ELSE IF sma_slope = "declining" \/ sma_slope = "flat" THEN "stagnation"
    ELSE IF is_extended /\ FracGt(distance_from_sma, Whole(EXTENSION_THRESHOLD)) THEN "stretched"
    ELSE IF FracLt(FracAbs(distance_from_sma), Whole(ACCUMULATION_BAND)) THEN "accumulation"
    ELSE "breakout"

\* ClassicAnalyzer._determine_status
_determine_status(is_positive, sma_slope, is_extended, distance_from_sma) ==
    IF ~is_positive THEN "breakdown"
    ELSE IF is_extended /\ FracGt(distance_from_sma, Whole(EXTENSION_THRESHOLD)) THEN "stretched"
    ELSE IF sma_slope = "declining" \/ sma_slope = "flat" THEN "stagnation"
    ELSE IF FracLt(FracAbs(distance_from_sma), Whole(ACCUMULATION_BAND)) THEN "accumulation"
    ELSE "breakout"

NoEntryZone == [present |-> FALSE, support |-> NoneVal, resistance |-> NoneVal]

\* the ATR block of analyze_classic: (atr_pct, atr_warning)
AtrRisk(atr_value, current_price) ==
    IF notna(atr_value) /\ current_price > 0
    THEN LET atr_pct == Frac(atr_value * 100, current_price)
         IN  [atr_pct |-> atr_pct,
              atr_warning |-> IF FracGe(atr_pct, Whole(ATR_SEVERE_THRESHOLD)) THEN "severe"
                              ELSE IF FracGe(atr_pct, Whole(ATR_WARNING_THRESHOLD)) THEN "warning"
                              ELSE "None"]
    ELSE [atr_pct |-> NoFrac, atr_warning |-> "None"]

\* a slip that would let an ATR warning veto the positive trend
ClassicResult_risk_veto(df, days_until_earnings) ==
    LET last_row == df[Len(df)]
        current_price == last_row.Close
        sma_150 == last_row.SMA_150
        is_positive == current_price > sma_150
        sma_slope == _calculate_sma_slope(df)
        distance_from_sma == Frac((current_price - sma_150) * 100, sma_150)
        is_extended == FracGt(FracAbs(distance_from_sma), Whole(EXTENSION_THRESHOLD))
        resistance == IF is_positive THEN _find_local_resistance(df) ELSE NoneVal
        entry_zone == IF is_positive /\ resistance # NoneVal
                      THEN [present |-> TRUE, support |-> sma_150, resistance |-> resistance]
                      ELSE NoEntryZone
        risk == AtrRisk(last_row.ATR, current_price)
        status == _determine_status(is_positive /\ risk.atr_warning = "None", sma_slope,
                                    is_extended, distance_from_sma)
    IN  [raised |-> "",
         is_positive |-> is_positive,
         current_price |-> current_price,
         sma_150 |-> sma_150,
         sma_slope |-> sma_slope,
         distance_from_sma |-> distance_from_sma,
         is_extended |-> is_extended,
         entry_zone |-> entry_zone,
         resistance |-> resistance,
         atr_pct |-> risk.atr_pct,
         atr_warning |-> risk.atr_warning,
         status |-> status,
         days_until_earnings |-> days_until_earnings]

\* analyze_classic from "Determine trend" to the return statement: the result
\* dictionary of a frame whose last SMA_150 is defined
ClassicResult(df, days_until_earnings) ==
    LET last_row == df[Len(df)]
        current_price == last_row.Close
        sma_150 == last_row.SMA_150
        is_positive == current_price > sma_150
        sma_slope == _calculate_sma_slope(df)
        distance_from_sma == Frac((current_price - sma_150) * 100, sma_150)
        is_extended == FracGt(FracAbs(distance_from_sma), Whole(EXTENSION_THRESHOLD))
        resistance == IF is_positive THEN _find_local_resistance(df) ELSE NoneVal
        entry_zone == IF is_positive /\ resistance # NoneVal
                      THEN [present |-> TRUE, support |-> sma_150, resistance |-> resistance]
                      ELSE NoEntryZone
        risk == AtrRisk(last_row.ATR, current_price)
        status == _determine_status(is_positive, sma_slope, is_extended, distance_from_sma)
    IN  [raised |-> "",
         is_positive |-> is_positive,
         current_price |-> current_price,
         sma_150 |-> sma_150,
         sma_slope |-> sma_slope,
         distance_from_sma |-> distance_from_sma,
         is_extended |-> is_extended,
         entry_zone |-> entry_zone,
         resistance |-> resistance,
         atr_pct |-> risk.atr_pct,
         atr_warning |-> risk.atr_warning,
         status |-> status,
         days_until_earnings |-> days_until_earnings]

\* a slip that would make the volatility measure mandatory
analyze_classic_atr_required(df, days_until_earnings) ==
    IF Len(df) = 0 THEN [raised |-> "ValueError", msg |-> "DataFrame is empty"]
    ELSE IF isna(df[Len(df)].SMA_150) \/ isna(df[Len(df)].ATR)
    THEN [raised |-> "ValueError", msg |-> "SMA_150 is not available"]
    ELSE ClassicResult(df, days_until_earnings)

\* ClassicAnalyzer.analyze_classic: the result dictionary, or the error raised
analyze_classic(df, days_until_earnings) ==
    IF Len(df) = 0 THEN [raised |-> "ValueError", msg |-> "DataFrame is empty"]
    ELSE IF isna(df[Len(df)].SMA_150)
    THEN [raised |-> "ValueError", msg |-> "SMA_150 is not available"]
    ELSE ClassicResult(df, days_until_earnings)

\* a slip that would leave out the arm of the stretched status
_generate_instruction_no_stretched(a) ==
    IF a.status = "breakdown" THEN "stand aside"
    ELSE IF a.status = "stagnation" THEN "wait for pullback"
    ELSE IF a.status = "accumulation" THEN "accumulate"
    ELSE IF a.status = "breakout" THEN (IF a.is_extended THEN "do not chase" ELSE "accumulate")
    ELSE "wait"

\* ClassicAnalyzer._generate_instruction
_generate_instruction(a) ==
    IF a.status = "breakdown" THEN "stand aside"
    ELSE IF a.status = "stretched" THEN "do not chase"
    ELSE IF a.status = "stagnation" THEN "wait for pullback"
    ELSE IF a.status = "accumulation" THEN "accumulate"
    ELSE IF a.status = "breakout" THEN (IF a.is_extended THEN "do not chase" ELSE "accumulate")
    ELSE "wait"

\* ClassicAnalyzer._generate_summary: which closing sentence is chosen
_generate_summary(a) ==
    IF a.status = "breakdown" THEN "below water"
    ELSE IF a.status = "stretched" THEN "too stretched"
    ELSE IF a.status = "stagnation" THEN "weak trend"
    ELSE IF a.status = "accumulation" THEN "accumulation zone, positive slope"
    ELSE IF a.status = "breakout" THEN "breakout, positive slope"
    ELSE "wait for a clear trend"

---------------------------------------------------------------------------
(* The narrative: ClassicAnalyzer.format_output *)

\* One line of text.  text is its wording (the template and the words chosen
\* for it), args the numbers printed into it, bold whether it carries the
\* "**" markers, pad whether blanks surround it.  marks is the set of
\* substrings of the line that ClassicAnalysisNotifier looks for:
\*   "calendar"  U+1F4C5      "hourglass"  U+23F3
\*   "target"    U+1F3AF      "no entry"   U+26D4
\*   "status:"   the words 'current status'
\*   "risk level", "risk warning", "instruction:"   the words so translated
\*   "summary:"  the label 'summary:' in front of the line
TextLine(kind, text, args, marks, bold) ==
    [kind |-> kind, text |-> text, args |-> args, marks |-> marks, bold |-> bold, pad |-> FALSE]

\* f"{x:.1f}": a percentage rounded to tenths (no value used here lies on a tie)
Tenths(f) ==
    LET a == IF f.n < 0 THEN -f.n ELSE f.n
        t == (2 * a * 10 + f.d) \div (2 * f.d)
    IN  IF f.n < 0 THEN -t ELSE t

DayNames == <<"Sunday", "Monday", "Tuesday", "Wednesday", "Thursday", "Friday", "Saturday">>

\* ClassicAnalyzer._get_hebrew_date: the date and the day name, read from the
\* clock; now counts days from a Sunday
_get_hebrew_date(now) == [date_str |-> now, day_he |-> DayNames[(now % 7) + 1]]

SlopeText(slope) == IF slope \in {"rising", "flat", "declining", "unknown"} THEN slope ELSE ""

\* a slip that would call a distance of exactly the threshold over-extended
_generate_explanation_ge(a) ==
    LET distance == a.distance_from_sma
        slope_desc == SlopeText(a.sma_slope)
    IN  IF a.is_positive
        THEN IF FracGe(FracAbs(distance), Whole(EXTENSION_THRESHOLD))
             THEN [text |-> <<"above the average", slope_desc, "but far from the line">>,
                   args |-> <<Tenths(distance)>>]
             ELSE IF FracLt(FracAbs(distance), Whole(IRON_FLOOR_BAND))
             THEN [text |-> <<"above the average", slope_desc, "at a distance", "iron floor">>,
                   args |-> <<Tenths(distance)>>]
             ELSE [text |-> <<"above the average", slope_desc, "at a distance">>,
                   args |-> <<Tenths(distance)>>]
        ELSE [text |-> <<"below the average", slope_desc, "falling knife">>,
              args |-> <<Tenths(FracAbs(distance))>>]

\* ClassicAnalyzer._generate_explanation: the sentence chosen and the distance
\* printed into it
_generate_explanation(a) ==
    LET distance == a.distance_from_sma
        slope_desc == SlopeText(a.sma_slope)
    IN  IF a.is_positive
        THEN IF FracGt(FracAbs(distance), Whole(EXTENSION_THRESHOLD))
             THEN [text |-> <<"above the average", slope_desc, "but far from the line">>,
                   args |-> <<Tenths(distance)>>]
             ELSE IF FracLt(FracAbs(distance), Whole(IRON_FLOOR_BAND))
             THEN [text |-> <<"above the average", slope_desc, "at a distance", "iron floor">>,
                   args |-> <<Tenths(distance)>>]
             ELSE [text |-> <<"above the average", slope_desc, "at a distance">>,
                   args |-> <<Tenths(distance)>>]
        ELSE [text |-> <<"below the average", slope_desc, "falling knife">>,
              args |-> <<Tenths(FracAbs(distance))>>]

\* the entry-zone or no-entry line of format_output
EntryLine(a) ==
    IF a.is_positive
    THEN IF a.entry_zone.present
         THEN IF a.current_price > a.entry_zone.resistance
              THEN TextLine("signal", <<"entry zone", "resistance broken, retest">>,
                            <<a.entry_zone.resistance>>, {"target"}, TRUE)
              ELSE TextLine("signal", <<"entry zone", "between the average and the breakout">>,
                            <<a.entry_zone.support, a.entry_zone.resistance,
                              Tenths(a.distance_from_sma)>>, {"target"}, TRUE)
         ELSE TextLine("signal", <<"entry zone", "no resistance found">>,
                       <<a.sma_150, Tenths(a.distance_from_sma)>>, {"target"}, TRUE)
    ELSE TextLine("signal", <<"no entry", "trading below the average">>,
                  <<a.sma_150, Tenths(FracAbs(a.distance_from_sma))>>, {"no entry"}, TRUE)

\* status_emoji.get(status, default) and status_text.get(status, status)
StatusEmoji(status) ==
    IF status \in {"breakout", "stretched"} THEN "rocket"
    ELSE IF status = "breakdown" THEN "collision"
    ELSE IF status = "stagnation" THEN "warning sign"
    ELSE IF status = "accumulation" THEN "bar chart"
    ELSE "chart rising"
StatusText(status) == status

\* the ATR line of format_output: <<>> when atr_pct is None
RiskLines(a) ==
    IF a.atr_pct # NoFrac
    THEN IF a.atr_warning = "severe"
         THEN <<TextLine("risk", <<"risk warning", "ATR very high">>, <<Tenths(a.atr_pct)>>,
                         {"risk warning"}, FALSE)>>
         ELSE IF a.atr_warning = "warning"
         THEN <<TextLine("risk", <<"risk warning", "ATR high">>, <<Tenths(a.atr_pct)>>,
                         {"risk warning"}, FALSE)>>
         ELSE <<TextLine("risk", <<"risk level", "ATR normal">>, <<Tenths(a.atr_pct)>>,
                         {"risk level"}, FALSE)>>
    ELSE <<>>

\* a slip that would count the earnings countdown down from the clock
format_output_countdown(ticker, a, now) ==
    LET explanation == _generate_explanation(a)
    IN  <<TextLine("header", <<ticker>>, <<a.current_price>>, {}, TRUE),
          TextLine("date", <<_get_hebrew_date(now).day_he>>, <<_get_hebrew_date(now).date_str>>,
                   {"calendar"}, FALSE)>>
        \o (IF a.days_until_earnings # NoneVal
            THEN <<TextLine("earnings", <<"days to report">>, <<a.days_until_earnings - (now % 7)>>,
                            {"hourglass"}, FALSE)>>
            ELSE <<>>)
        \o <<EntryLine(a),
             TextLine("status", <<StatusEmoji(a.status), StatusText(a.status)>>, <<>>,
                      {"status:"}, FALSE),
             TextLine("explanation", explanation.text, explanation.args, {}, FALSE)>>
        \o RiskLines(a)
        \o <<TextLine("instruction", <<_generate_instruction(a)>>, <<>>, {"instruction:"}, FALSE),
             TextLine("summary", <<_generate_summary(a)>>, <<>>, {}, FALSE)>>

\* ClassicAnalyzer.format_output: the lines joined by "\n", in order.  The
\* optional date suffix of the earnings line is left out: main_classic calls
\* analyze_classic without next_earnings_date.
format_output(ticker, a, now) ==
    LET explanation == _generate_explanation(a)
    IN  <<TextLine("header", <<ticker>>, <<a.current_price>>, {}, TRUE),
          TextLine("date", <<_get_hebrew_date(now).day_he>>, <<_get_hebrew_date(now).date_str>>,
                   {"calendar"}, FALSE)>>
        \o (IF a.days_until_earnings # NoneVal
            THEN <<TextLine("earnings", <<"days to report">>, <<a.days_until_earnings>>,
                            {"hourglass"}, FALSE)>>
            ELSE <<>>)
        \o <<EntryLine(a),
             TextLine("status", <<StatusEmoji(a.status), StatusText(a.status)>>, <<>>,
                      {"status:"}, FALSE),
             TextLine("explanation", explanation.text, explanation.args, {}, FALSE)>>
        \o RiskLines(a)
        \o <<TextLine("instruction", <<_generate_instruction(a)>>, <<>>, {"instruction:"}, FALSE),
             TextLine("summary", <<_generate_summary(a)>>, <<>>, {}, FALSE)>>

---------------------------------------------------------------------------
(* The embed: ClassicAnalysisNotifier._create_analysis_embed *)

\* the longest value Discord takes in one field
FIELD_VALUE_LIMIT == 1024

\* None where a line is expected
NoLine == [kind |-> "None", text |-> <<>>, args |-> <<>>, marks |-> {}, bold |-> FALSE, pad |-> FALSE]

\* line.strip()
Strip(line) == [line EXCEPT !.pad = FALSE]
\* line.replace("**", "")
Unbold(line) == [line EXCEPT !.bold = FALSE]

\* [line.strip() for line in content.split('\n') if line.strip()]
RECURSIVE NonEmptyLines(_)
NonEmptyLines(content) ==
    IF content = <<>> THEN <<>>
    ELSE (IF Head(content).text # <<>> THEN <<Strip(Head(content))>> ELSE <<>>)
         \o NonEmptyLines(Tail(content))

\* the section table before the loop
SectionsStart ==
    [events |-> <<>>, signal |-> NoLine, status |-> <<>>, risk |-> NoLine, strategy |-> <<>>,
     summary_text |-> NoLine, current_section |-> "None"]

\* a slip that would test for the last line before the markers
ParseLine_summary_first(s, line, is_last) ==
    IF is_last
    THEN [s EXCEPT !.summary_text = line, !.current_section = "None"]
    ELSE IF "calendar" \in line.marks \/ "hourglass" \in line.marks
    THEN [s EXCEPT !.events = Append(@, line)]
    ELSE IF "target" \in line.marks \/ "no entry" \in line.marks
    THEN [s EXCEPT !.signal = Unbold(line), !.current_section = "None"]
    ELSE IF "status:" \in line.marks
    THEN [s EXCEPT !.current_section = "status", !.status = Append(@, Unbold(line))]
    ELSE IF "risk level" \in line.marks \/ "risk warning" \in line.marks
    THEN [s EXCEPT !.risk = line, !.current_section = "None"]
    ELSE IF "instruction:" \in line.marks
    THEN [s EXCEPT !.current_section = "strategy", !.strategy = Append(@, line)]
    ELSE IF s.current_section = "status"
    THEN [s EXCEPT !.status = Append(@, line)]
    ELSE IF s.current_section = "strategy"
    THEN [s EXCEPT !.strategy = Append(@, line)]
    ELSE s

\* a slip that would take the entry line only ahead of the status line
ParseLine_signal_before_status(s, line, is_last) ==
    IF "calendar" \in line.marks \/ "hourglass" \in line.marks
    THEN [s EXCEPT !.events = Append(@, line)]
    ELSE IF ("target" \in line.marks \/ "no entry" \in line.marks) /\ s.status = <<>>
    THEN [s EXCEPT !.signal = Unbold(line), !.current_section = "None"]
    ELSE IF "status:" \in line.marks
    THEN [s EXCEPT !.current_section = "status", !.status = Append(@, Unbold(line))]
    ELSE IF "risk level" \in line.marks \/ "risk warning" \in line.marks
    THEN [s EXCEPT !.risk = line, !.current_section = "None"]
    ELSE IF "instruction:" \in line.marks
    THEN [s EXCEPT !.current_section = "strategy", !.strategy = Append(@, line)]
    ELSE IF is_last
    THEN [s EXCEPT !.summary_text = line, !.current_section = "None"]
    ELSE IF s.current_section = "status"
    THEN [s EXCEPT !.status = Append(@, line)]
    ELSE IF s.current_section = "strategy"
    THEN [s EXCEPT !.strategy = Append(@, line)]
    ELSE s

\* the body of the loop over lines[1:], for one line; is_last is i == len(lines) - 1
ParseLine(s, line, is_last) ==
    IF "calendar" \in line.marks \/ "hourglass" \in line.marks
    THEN [s EXCEPT !.events = Append(@, line)]
    ELSE IF "target" \in line.marks \/ "no entry" \in line.marks
    THEN [s EXCEPT !.signal = Unbold(line), !.current_section = "None"]
    ELSE IF "status:" \in line.marks
    THEN [s EXCEPT !.current_section = "status", !.status = Append(@, Unbold(line))]
    ELSE IF "risk level" \in line.marks \/ "risk warning" \in line.marks
    THEN [s EXCEPT !.risk = line, !.current_section = "None"]
    ELSE IF "instruction:" \in line.marks
    THEN [s EXCEPT !.current_section = "strategy", !.strategy = Append(@, line)]
    ELSE IF is_last
    THEN [s EXCEPT !.summary_text = line, !.current_section = "None"]
    ELSE IF s.current_section = "status"
    THEN [s EXCEPT !.status = Append(@, line)]
    ELSE IF s.current_section = "strategy"
    THEN [s EXCEPT !.strategy = Append(@, line)]
    ELSE s

\* for i in range(i, len(lines)), lines counted from 1 here
RECURSIVE ParseFrom(_, _, _)
ParseFrom(lines, i, s) ==
    IF i > Len(lines) THEN s
    ELSE ParseFrom(lines, i + 1, ParseLine(s, lines[i], i = Len(lines)))

\* the section table after the loop; the header line lines[0] is skipped
ParseSections(lines) == ParseFrom(lines, 2, SectionsStart)

\* the summary line without its 'summary:' label
CleanSummary(line) == [line EXCEPT !.marks = @ \ {"summary:"}]

\* one field of the embed; quoted says that _bidi_safe put "> " before every line
Field(name, value, quoted, inline) ==
    [name |-> name, value |-> value, quoted |-> quoted, inline |-> inline]

\* _bidi_safe: "> " is put in front of every line of the text, so a text of
\* `length` characters in `lines` lines comes back 2 * lines characters longer
_bidi_safe_len(length, lines) == length + 2 * lines

\* the company profile, cut to the field limit
ProfileValue(summary_len) ==
    IF summary_len > FIELD_VALUE_LIMIT
    THEN [len |-> 1021 + 3, ellipsis |-> TRUE]
    ELSE [len |-> summary_len, ellipsis |-> FALSE]

\* "3. Build Fields"
BuildFields(sections, info) ==
    LET earnings_lines == SelectSeq(sections.events, LAMBDA l : "hourglass" \in l.marks)
    IN  (IF info.market_cap # "" THEN <<Field("market cap", <<info.market_cap>>, FALSE, TRUE)>> ELSE <<>>)
        \o (IF info.sector # "" THEN <<Field("sector", <<info.sector>>, FALSE, TRUE)>> ELSE <<>>)
        \o (IF info.industry # "" THEN <<Field("industry", <<info.industry>>, FALSE, TRUE)>> ELSE <<>>)
        \o (IF info.earnings_info # NoLine
            THEN <<Field("events", <<info.earnings_info>>, TRUE, FALSE)>>
            ELSE IF earnings_lines # <<>>
            THEN <<Field("events", earnings_lines, FALSE, FALSE)>>
            ELSE <<>>)
        \o (IF sections.signal # NoLine
            THEN <<Field("technical signal", <<sections.signal>>, TRUE, FALSE)>> ELSE <<>>)
        \o (IF sections.status # <<>>
            THEN <<Field("status", sections.status, TRUE, FALSE)>> ELSE <<>>)
        \o (IF sections.risk # NoLine
            THEN <<Field("risk", <<sections.risk>>, TRUE, FALSE)>> ELSE <<>>)
        \o (IF sections.strategy # <<>>
            THEN <<Field("instruction", sections.strategy, TRUE, FALSE)>> ELSE <<>>)
        \o (IF sections.summary_text # NoLine
            THEN <<Field("technical summary", <<CleanSummary(sections.summary_text)>>, TRUE, FALSE)>>
            ELSE <<>>)
        \o (IF info.summary_len > 0
            THEN <<Field("company profile", <<ProfileValue(info.summary_len)>>, TRUE, FALSE)>>
            ELSE <<>>)

NoEmbed == [made |-> FALSE]

\* ClassicAnalysisNotifier._create_analysis_embed: {} for a text without lines,
\* else the embed; sections is the table its parsing loop filled
_create_analysis_embed(content, is_positive, info, timestamp) ==
    LET lines == NonEmptyLines(content)
    IN  IF lines = <<>> THEN NoEmbed
        ELSE LET sections == ParseSections(lines)
             IN  [made |-> TRUE,
                  title |-> [status_icon |-> IF is_positive THEN "green" ELSE "red",
                             header_line |-> Unbold(lines[1])],
                  color |-> IF is_positive THEN "089981" ELSE "f23645",
                  sections |-> sections,
                  fields |-> BuildFields(sections, info),
                  timestamp |-> timestamp]

---------------------------------------------------------------------------
(* The scoring engine: TechnicalAnalyzer.calculate_score *)

\* One line of summary_parts: the rule it belongs to, its mark, its wording
\* and the points it announces.
Line(rule, mark, text, pts) == [rule |-> rule, mark |-> mark, text |-> text, pts |-> pts]

ScoreStart == [score |-> 0, summary_parts |-> <<>>, added_points |-> <<>>, penalties |-> <<>>]

\* score += p; added_points.append(p); summary_parts.append(line)
AddPoints(acc, p, line) ==
    [score |-> acc.score + p,
     summary_parts |-> Append(acc.summary_parts, line),
     added_points |-> Append(acc.added_points, p),
     penalties |-> acc.penalties]

\* score += p; penalties.append(p); summary_parts.append(line)
AddPenalty(acc, p, line) ==
    [score |-> acc.score + p,
     summary_parts |-> Append(acc.summary_parts, line),
     added_points |-> acc.added_points,
     penalties |-> Append(acc.penalties, p)]

\* summary_parts.append(line)
AddNote(acc, line) == [acc EXCEPT !.summary_parts = Append(@, line)]

\* a slip that would leave a deviation of exactly SMA_CROSSOVER_PCT without a bonus
RuleSMA_strict(acc, row) ==
    IF notna(row.SMA_150)
    THEN IF Gt(row.Close, row.SMA_150)
         THEN LET deviation_pct == Frac((row.Close - row.SMA_150) * 100, row.SMA_150)
              IN  IF FracLt(Whole(0), deviation_pct) /\ FracLt(deviation_pct, Whole(SMA_CROSSOVER_PCT))
                  THEN AddPoints(acc, SCORE_SMA_CROSSOVER,
                                 Line("SMA_150", "ok", "crossover entry", SCORE_SMA_CROSSOVER))
                  ELSE IF FracGt(deviation_pct, Whole(SMA_CROSSOVER_PCT))
                  THEN AddPoints(acc, SCORE_SMA_ESTABLISHED,
                                 Line("SMA_150", "ok", "established trend", SCORE_SMA_ESTABLISHED))
                  ELSE acc
         ELSE AddNote(acc, Line("SMA_150", "fail", "price not above", 0))
    ELSE AddNote(acc, Line("SMA_150", "fail", "not available", 0))

\* SMA 150 block
RuleSMA(acc, row) ==
    IF notna(row.SMA_150)
    THEN IF Gt(row.Close, row.SMA_150)
         THEN LET deviation_pct == Frac((row.Close - row.SMA_150) * 100, row.SMA_150)
              IN  IF FracLt(Whole(0), deviation_pct) /\ FracLe(deviation_pct, Whole(SMA_CROSSOVER_PCT))
                  THEN AddPoints(acc, SCORE_SMA_CROSSOVER,
                                 Line("SMA_150", "ok", "crossover entry", SCORE_SMA_CROSSOVER))
                  ELSE IF FracGt(deviation_pct, Whole(SMA_CROSSOVER_PCT))
                  THEN AddPoints(acc, SCORE_SMA_ESTABLISHED,
                                 Line("SMA_150", "ok", "established trend", SCORE_SMA_ESTABLISHED))
                  ELSE acc
         ELSE AddNote(acc, Line("SMA_150", "fail", "price not above", 0))
    ELSE AddNote(acc, Line("SMA_150", "fail", "not available", 0))

\* EMA 50 block
RuleEMA(acc, row) ==
    IF notna(row.EMA_50) /\ Gt(row.Close, row.EMA_50)
    THEN AddPoints(acc, SCORE_EMA_ABOVE, Line("EMA_50", "ok", "price above", SCORE_EMA_ABOVE))
    ELSE AddNote(acc, Line("EMA_50", "fail", "price not above", 0))

\* a slip that would penalise the two extreme thresholds themselves
RSIScore_inclusive(acc, rsi_value) ==
    IF RSI_OPTIMAL_LOW <= rsi_value /\ rsi_value <= RSI_OPTIMAL_HIGH
    THEN AddPoints(acc, SCORE_RSI_OPTIMAL, Line("RSI", "ok", "optimal range", SCORE_RSI_OPTIMAL))
    ELSE IF rsi_value >= RSI_OVERBOUGHT \/ rsi_value <= RSI_OVERSOLD
    THEN AddPenalty(acc, PENALTY_RSI_EXTREME,
                    Line("RSI", "fail",
                         IF rsi_value >= RSI_OVERBOUGHT THEN "overbought" ELSE "oversold",
                         PENALTY_RSI_EXTREME))
    ELSE AddNote(acc, Line("RSI", "fail", "outside optimal range", 0))

\* RSI block, for a defined value
RSIScore(acc, rsi_value) ==
    IF RSI_OPTIMAL_LOW <= rsi_value /\ rsi_value <= RSI_OPTIMAL_HIGH
    THEN AddPoints(acc, SCORE_RSI_OPTIMAL, Line("RSI", "ok", "optimal range", SCORE_RSI_OPTIMAL))
    ELSE IF rsi_value > RSI_OVERBOUGHT \/ rsi_value < RSI_OVERSOLD
    THEN AddPenalty(acc, PENALTY_RSI_EXTREME,
                    Line("RSI", "fail",
                         IF rsi_value > RSI_OVERBOUGHT THEN "overbought" ELSE "oversold",
                         PENALTY_RSI_EXTREME))
    ELSE AddNote(acc, Line("RSI", "fail", "outside optimal range", 0))

\* a slip that would read an undefined oscillator as zero
RuleRSI_fillna(acc, row) == RSIScore(acc, IF isna(row.RSI) THEN 0 ELSE row.RSI)

\* RSI block
RuleRSI(acc, row) ==
    IF notna(row.RSI)
    THEN RSIScore(acc, row.RSI)
    ELSE AddNote(acc, Line("RSI", "fail", "not available", 0))

\* a slip that would list the volume bonus without adding it to the score
RuleVolume_unscored(acc, row) ==
    IF notna(row.Volume) /\ notna(row.Volume_MA_20)
    THEN IF row.Volume > row.Volume_MA_20
         THEN [acc EXCEPT !.added_points = Append(@, SCORE_VOLUME_HIGH),
                          !.summary_parts = Append(@, Line("Volume", "ok", "above average", SCORE_VOLUME_HIGH))]
         ELSE AddNote(acc, Line("Volume", "fail", "below average", 0))
    ELSE AddNote(acc, Line("Volume", "fail", "not available", 0))

\* Volume block
RuleVolume(acc, row) ==
    IF notna(row.Volume) /\ notna(row.Volume_MA_20)
    THEN IF row.Volume > row.Volume_MA_20
         THEN AddPoints(acc, SCORE_VOLUME_HIGH, Line("Volume", "ok", "above average", SCORE_VOLUME_HIGH))
         ELSE AddNote(acc, Line("Volume", "fail", "below average", 0))
    ELSE AddNote(acc, Line("Volume", "fail", "not available", 0))

\* CCI block
RuleCCI(acc, row) ==
    IF notna(row.CCI)
    THEN LET cci_value == row.CCI
         IN  IF CCI_STRONG_LOW <= cci_value /\ cci_value <= CCI_STRONG_HIGH
             THEN AddPoints(acc, SCORE_CCI_STRONG, Line("CCI", "ok", "strong range", SCORE_CCI_STRONG))
             ELSE AddNote(acc, Line("CCI", "fail", "outside strong range", 0))
    ELSE AddNote(acc, Line("CCI", "fail", "not available", 0))

\* Bollinger Bands block
RuleBBands(acc, row) ==
    IF notna(row.BBands_Upper) /\ Gt(row.Close, row.BBands_Upper)
    THEN AddPenalty(acc, PENALTY_BBANDS_OVEREXTENDED,
                    Line("BBands_Upper", "fail", "overextended", PENALTY_BBANDS_OVEREXTENDED))
    ELSE acc

\* a slip that would drop the floor
ClampScore_none(score) == score

\* score = max(0.0, score)
ClampScore(score) == Max(0, score)

\* TechnicalAnalyzer.calculate_score: (score, summary), or the error raised by
\* data_frame.iloc[-1] on a frame without rows
calculate_score(data_frame) ==
    IF Len(data_frame) = 0 THEN [raised |-> "IndexError"]
    ELSE
        LET last_row == data_frame[Len(data_frame)]
            acc == RuleBBands(RuleCCI(RuleVolume(RuleRSI(RuleEMA(RuleSMA(ScoreStart,
                       last_row), last_row), last_row), last_row), last_row), last_row)
            score == ClampScore(acc.score)
        IN  [raised |-> "",
             score |-> score,
             max_score |-> MAX_SCORE,
             total_added |-> SumSeq(acc.added_points),
             total_penalties |-> SumSeq(acc.penalties),
             summary_parts |-> acc.summary_parts]

\* One enriched frame of TechnicalAnalyzer.analyze: `len` rows whose first row is
\* bar number `first`.  Each TA-Lib column is undefined until its lookback is
\* filled: SMA and EMA at bar timeperiod, RSI at bar timeperiod + 1, CCI and the
\* bands at bar timeperiod; the rolling volume mean at bar VOLUME_MA_PERIOD.
TechFrame(len, first, v) ==
    [i \in 1..len |->
        LET bar == first + i - 1 IN
        [Close        |-> v.Close,
         Volume       |-> v.Volume,
         SMA_150      |-> IF bar < SMA_PERIOD THEN NaN ELSE v.SMA_150,
         EMA_50       |-> IF bar < EMA_PERIOD THEN NaN ELSE v.EMA_50,
         RSI          |-> IF bar < RSI_PERIOD + 1 THEN NaN ELSE v.RSI,
         CCI          |-> IF bar < CCI_PERIOD THEN NaN ELSE v.CCI,
         BBands_Upper |-> IF bar < BBANDS_PERIOD THEN NaN ELSE v.BBands_Upper,
         Volume_MA_20 |-> IF bar < VOLUME_MA_PERIOD \/ isna(v.Volume) THEN NaN ELSE v.Volume_MA_20]]

---------------------------------------------------------------------------
(* Inputs *)

\* the most bars one year of daily data holds
MaxBars == 252
\* the longest frame handed to analyze_classic directly
MaxFrameLen == 31

\* series lengths around every lookback of the two analyzers
BarCounts ==
    {0, 1, RSI_PERIOD, RSI_PERIOD + 1, CCI_PERIOD - 1, CCI_PERIOD, EMA_PERIOD - 1, EMA_PERIOD,
     SMA_PERIOD - 1, SMA_PERIOD, SMA_PERIOD + SMA_SLOPE_LOOKBACK - 1,
     SMA_PERIOD + SMA_SLOPE_LOOKBACK, MaxBars}

FrameLens == {0, 1, SMA_SLOPE_LOOKBACK, SMA_SLOPE_LOOKBACK + 1, RESISTANCE_LOOKBACK, MaxFrameLen}

Closes == {0, 90, 100, 101, 102, 103, 105, 120, 121, 150, 200}
SMAs == {100, 140, 199, 200, 201}
PastSMAs == {99, 100, 200}
ATRs == {4, 5, 8}
HighProfiles ==
    {[last |-> NaN, mid |-> NaN, old |-> NaN, past_close |-> 100],
     [last |-> NaN, mid |-> NaN, old |-> 300, past_close |-> 100],
     [last |-> 104, mid |-> 110, old |-> 300, past_close |-> 100],
     [last |-> 300, mid |-> 95, old |-> 95, past_close |-> 95]}
Earnings == {NoneVal, 7}

TechCloses == {90, 100, 103, 105, 106}
TechSMAs == {100}
TechEMAs == {95, 110}
RSIs == {25, 30, 40, 65, 70, 75}
Volumes == {10, 20, 30}
VolumeMAs == {20}
CCIs == {50, 100, 200, 250}
BBandsUppers == {102, 120}

\* indicator values at the last bar, all defined
TechValues ==
    [Close : TechCloses, Volume : Volumes, SMA_150 : TechSMAs, EMA_50 : TechEMAs, RSI : RSIs,
     CCI : CCIs, BBands_Upper : BBandsUppers, Volume_MA_20 : VolumeMAs]

\* the same, any of them possibly undefined
TechValuesNaN ==
    [Close : TechCloses, Volume : Volumes \cup {NaN}, SMA_150 : TechSMAs \cup {NaN},
     EMA_50 : TechEMAs \cup {NaN}, RSI : RSIs \cup {NaN}, CCI : CCIs \cup {NaN},
     BBands_Upper : BBandsUppers \cup {NaN}, Volume_MA_20 : VolumeMAs \cup {NaN}]

\* the ticker symbol
Tickers == {"NVDA"}
\* the days the clock can show, counted from a Sunday: a Saturday and the Sunday after
Clock == {6, 7}

\* the longest text handed to send_analysis_message directly, in lines
MaxContentLen == 4

\* lines a text may be made of: one per marker of the notifier, a line without
\* any, a blank line, and a padded line that starts with the summary label
LinePool ==
    {TextLine("date", <<"Sunday">>, <<7>>, {"calendar"}, FALSE),
     TextLine("signal", <<"entry zone", "no resistance found">>, <<100, 3>>, {"target"}, TRUE),
     TextLine("status", <<"rocket", "breakout">>, <<>>, {"status:"}, FALSE),
     TextLine("sentence", <<"some words">>, <<>>, {}, FALSE),
     TextLine("risk", <<"risk level", "ATR normal">>, <<40>>, {"risk level"}, FALSE),
     TextLine("instruction", <<"accumulate">>, <<>>, {"instruction:"}, FALSE),
     TextLine("blank", <<>>, <<>>, {}, FALSE),
     [TextLine("labelled", <<"closing words">>, <<>>, {"summary:"}, TRUE) EXCEPT !.pad = TRUE]}

Contents == UNION {[1..n -> LinePool] : n \in 0..MaxContentLen}

\* what get_ticker_info returned: nothing, a profile, a profile one character
\* over the field limit together with an earnings note
NoProfile ==
    [market_cap |-> "", sector |-> "", industry |-> "", summary_len |-> 0, earnings_info |-> NoLine]
Profiles ==
    {NoProfile,
     [market_cap |-> "1.84T", sector |-> "Technology", industry |-> "Semiconductors",
      summary_len |-> FIELD_VALUE_LIMIT, earnings_info |-> NoLine],
     [market_cap |-> "1.84T", sector |-> "Technology", industry |-> "", summary_len |-> FIELD_VALUE_LIMIT + 1,
      earnings_info |-> TextLine("earnings", <<"earnings in a week">>, <<>>, {}, FALSE)]}

---------------------------------------------------------------------------
(* The analysis passes *)

NoResult == [raised |-> "not run"]

\* no batch runs
NoLocals == [df |-> <<>>, result |-> NoResult]
NoNotifier == [made |-> FALSE, webhook_url |-> "", responses |-> <<>>]
NoDelivery == [done |-> FALSE]
BatchIdle ==
    /\ program = "none"
    /\ feed = <<>>
    /\ loop_i = 1
    /\ results = <<>>
    /\ discord_analyses = <<>>
    /\ loop_locals = NoLocals
    /\ discord_notifier = NoNotifier
    /\ delivery = NoDelivery

\* the bot is not running
BotIdle ==
    /\ TARGET_CHANNEL_ID = ""
    /\ messages = <<>>
    /\ handler = <<>>
    /\ frames = <<>>
    /\ outputs = <<>>

Init ==
    /\ pc = "start"
    /\ nbars = NoneVal
    /\ cdf = <<>>
    /\ analysis = NoResult
    /\ tdf = <<>>
    /\ score_out = NoResult
    /\ date_read = NoneVal
    /\ narrative = <<>>
    /\ embed = NoEmbed
    /\ BatchIdle
    /\ BotIdle

\* ClassicAnalyzer.analyze: n bars come back from the provider; fewer than
\* MIN_DATA_POINTS raise ValueError, else the last 30 enriched rows are returned.
ClassicAnalyzer_analyze ==
    /\ pc = "start"
    /\ \E n \in BarCounts :
        /\ nbars' = n
        /\ IF n < MIN_DATA_POINTS
           THEN /\ analysis' = [raised |-> "ValueError", msg |-> "Insufficient data points",
                                have |-> n, need |-> MIN_DATA_POINTS]
                /\ cdf' = <<>>
                /\ pc' = "classic_failed"
           ELSE /\ \E close \in Closes, sma \in SMAs, past \in PastSMAs, atr \in ATRs, hp \in HighProfiles :
                      LET k == Max(30, RESISTANCE_LOOKBACK)
                          len == Min(n, k)
                      IN  cdf' = ClassicFrame(len, n - len + 1, close, sma, past, atr, hp)
                /\ analysis' = NoResult
                /\ pc' = "classic_df"
    /\ UNCHANGED <<date_read, narrative, embed, tdf, score_out>>
    /\ UNCHANGED <<batch_vars, bot_vars>>

\* a caller hands analyze_classic a frame of its own (every column may hold NaN)
SupplyClassicFrame ==
    /\ pc = "start"
    /\ \E len \in FrameLens, close \in Closes, sma \in SMAs \cup {NaN}, past \in PastSMAs \cup {NaN},
          atr \in ATRs \cup {NaN}, hp \in HighProfiles :
           cdf' = ClassicFrame(len, MaxBars, close, sma, past, atr, hp)
    /\ nbars' = NoneVal
    /\ pc' = "classic_df"
    /\ UNCHANGED <<date_read, narrative, embed, analysis, tdf, score_out>>
    /\ UNCHANGED <<batch_vars, bot_vars>>

\* ClassicAnalyzer.analyze_classic on the frame
AnalyzeClassic ==
    /\ pc = "classic_df"
    /\ \E e \in Earnings : analysis' = analyze_classic(cdf, e)
    /\ pc' = "classic_done"
    /\ UNCHANGED <<date_read, narrative, embed, nbars, cdf, tdf, score_out>>
    /\ UNCHANGED <<batch_vars, bot_vars>>

\* TechnicalAnalyzer.analyze: no length check; the last two enriched rows are
\* returned.  With no bars at all the indicator calls either raise or return
\* empty columns.
TechnicalAnalyzer_analyze ==
    /\ pc = "start"
    /\ \E n \in BarCounts, v \in TechValues :
        /\ nbars' = n
        /\ \/ /\ n = 0
              /\ tdf' = <<>>
              /\ score_out' = [raised |-> "Exception"]
              /\ pc' = "tech_failed"
           \/ /\ LET len == Min(n, 2) IN tdf' = TechFrame(len, n - len + 1, v)
              /\ score_out' = NoResult
              /\ pc' = "tech_df"
    /\ UNCHANGED <<date_read, narrative, embed, cdf, analysis>>
    /\ UNCHANGED <<batch_vars, bot_vars>>

\* a caller hands calculate_score a frame of its own
SupplyTechFrame ==
    /\ pc = "start"
    /\ \E len \in {0, 1}, v \in TechValuesNaN : tdf' = TechFrame(len, MaxBars, v)
    /\ nbars' = NoneVal
    /\ pc' = "tech_df"
    /\ UNCHANGED <<date_read, narrative, embed, cdf, analysis, score_out>>
    /\ UNCHANGED <<batch_vars, bot_vars>>

\* TechnicalAnalyzer.calculate_score on the frame
CalculateScore ==
    /\ pc = "tech_df"
    /\ score_out' = calculate_score(tdf)
    /\ pc' = "tech_done"
    /\ UNCHANGED <<date_read, narrative, embed, nbars, cdf, analysis, tdf>>
    /\ UNCHANGED <<batch_vars, bot_vars>>

\* ClassicAnalyzer.format_output on the result dictionary; the date comes from
\* the clock.  The frame is not an argument and is dropped here.
FormatOutput ==
    /\ pc = "classic_done"
    /\ analysis.raised = ""
    /\ \E ticker \in Tickers, d \in Clock :
           /\ date_read' = d
           /\ narrative' = format_output(ticker, analysis, d)
    /\ nbars' = NoneVal
    /\ cdf' = <<>>
    /\ pc' = "formatted"
    /\ UNCHANGED <<analysis, tdf, score_out, embed>>
    /\ UNCHANGED <<batch_vars, bot_vars>>

\* the bot and the batch runner pass the narrative on: _create_analysis_embed
\* with is_positive of the result and the company profile
CreateAnalysisEmbed ==
    /\ pc = "formatted"
    /\ \E info \in Profiles, t \in {c \in Clock : c >= date_read} :
           embed' = _create_analysis_embed(narrative, analysis.is_positive, info, t)
    /\ pc' = "embedded"
    /\ UNCHANGED <<nbars, cdf, analysis, tdf, score_out, date_read, narrative>>
    /\ UNCHANGED <<batch_vars, bot_vars>>

\* a caller hands send_analysis_message a text of its own
SupplyContent ==
    /\ pc = "start"
    /\ narrative' \in Contents
    /\ pc' = "content"
    /\ UNCHANGED <<nbars, cdf, analysis, tdf, score_out, date_read, embed>>
    /\ UNCHANGED <<batch_vars, bot_vars>>

\* send_analysis_message: _create_analysis_embed on that text
SendAnalysisMessage ==
    /\ pc = "content"
    /\ \E is_positive \in BOOLEAN, t \in Clock :
           embed' = _create_analysis_embed(narrative, is_positive, NoProfile, t)
    /\ pc' = "sent"
    /\ UNCHANGED <<nbars, cdf, analysis, tdf, score_out, date_read, narrative>>
    /\ UNCHANGED <<batch_vars, bot_vars>>

\* the pass is over; its frame and result are dropped
NextPass ==
    /\ pc \in {"classic_failed", "classic_done", "tech_failed", "tech_done", "embedded", "sent"}
    /\ pc' = "start"
    /\ nbars' = NoneVal
    /\ cdf' = <<>>
    /\ analysis' = NoResult
    /\ tdf' = <<>>
    /\ score_out' = NoResult
    /\ date_read' = NoneVal
    /\ narrative' = <<>>
    /\ embed' = NoEmbed
    /\ UNCHANGED <<batch_vars, bot_vars>>

Next ==
    \/ ClassicAnalyzer_analyze
    \/ SupplyClassicFrame
    \/ AnalyzeClassic
    \/ TechnicalAnalyzer_analyze
    \/ SupplyTechFrame
    \/ CalculateScore
    \/ FormatOutput
    \/ CreateAnalysisEmbed
    \/ SupplyContent
    \/ SendAnalysisMessage
    \/ NextPass

Spec == Init /\ [][Next]_vars

---------------------------------------------------------------------------
(* The batch runners: main.py and main_classic.py *)

\* the number of tickers of config.TICKERS a batch goes through
MaxTickers == 3
\* config.TICKERS, shortened; the configured list holds one symbol twice
TICKERS == SubSeq(<<"NVDA", "META", "META", "AMD">>, 1, MaxTickers)

\* indicator values of two last bars
QuietBar ==
    [Close |-> 103, Volume |-> 30, SMA_150 |-> 100, EMA_50 |-> 95, RSI |-> 40, CCI |-> 100,
     BBands_Upper |-> 120, Volume_MA_20 |-> 20]
HotBar ==
    [Close |-> 106, Volume |-> 10, SMA_150 |-> 100, EMA_50 |-> 110, RSI |-> 75, CCI |-> 250,
     BBands_Upper |-> 102, Volume_MA_20 |-> 20]

\* what the provider answers to TechnicalAnalyzer.analyze: the request fails, or
\* n bars come back; on no bars at all the indicator calls raise or return
\* empty columns
TechFeeds ==
    {[fetch |-> "error", n |-> 0, empty_input |-> "raises", v |-> QuietBar],
     [fetch |-> "ok", n |-> 0, empty_input |-> "raises", v |-> QuietBar],
     [fetch |-> "ok", n |-> 0, empty_input |-> "empty columns", v |-> QuietBar],
     [fetch |-> "ok", n |-> SMA_PERIOD - 1, empty_input |-> "raises", v |-> QuietBar],
     [fetch |-> "ok", n |-> MaxBars, empty_input |-> "raises", v |-> QuietBar],
     [fetch |-> "ok", n |-> MaxBars, empty_input |-> "raises", v |-> HotBar]}

\* what the provider answers to ClassicAnalyzer.analyze and to get_ticker_info
ClassicFeeds ==
    {[fetch |-> "error", n |-> 0, close |-> 0, sma |-> 100, past_sma |-> 100, atr |-> 4,
      hp |-> [last |-> NaN, mid |-> NaN, old |-> NaN, past_close |-> 100],
      days_until_earnings |-> NoneVal, next_earnings_date |-> NoneVal, sector_en |-> "Unknown"],
     [fetch |-> "ok", n |-> MIN_DATA_POINTS - 1, close |-> 105, sma |-> 100, past_sma |-> 99, atr |-> 4,
      hp |-> [last |-> 104, mid |-> 110, old |-> 300, past_close |-> 100],
      days_until_earnings |-> NoneVal, next_earnings_date |-> NoneVal, sector_en |-> "Technology"],
     [fetch |-> "ok", n |-> MaxBars, close |-> 103, sma |-> 100, past_sma |-> 99, atr |-> 4,
      hp |-> [last |-> 104, mid |-> 110, old |-> 300, past_close |-> 100],
      days_until_earnings |-> 7, next_earnings_date |-> 13, sector_en |-> "Technology"],
     [fetch |-> "ok", n |-> MaxBars, close |-> 90, sma |-> 100, past_sma |-> 100, atr |-> 8,
      hp |-> [last |-> NaN, mid |-> NaN, old |-> 300, past_close |-> 100],
      days_until_earnings |-> NoneVal, next_earnings_date |-> NoneVal, sector_en |-> "Unknown"]}

\* TechnicalAnalyzer.analyze as a function of the provider's answer: the last
\* two enriched rows, or the error raised
TechnicalAnalyzer_analyze_result(f) ==
    IF f.fetch = "error" THEN [raised |-> "Exception", msg |-> "request failed"]
    ELSE IF f.n = 0 /\ f.empty_input = "raises" THEN [raised |-> "Exception", msg |-> "inputs are all NaN"]
    ELSE LET len == Min(f.n, 2)
         IN  [raised |-> "", df |-> TechFrame(len, f.n - len + 1, f.v)]

\* ClassicAnalyzer.analyze as a function of the provider's answer: the tuple
\* (frame, days_until_earnings, next_earnings_date), or the error raised
ClassicAnalyzer_analyze_result(f) ==
    IF f.fetch = "error" THEN [raised |-> "Exception", msg |-> "request failed"]
    ELSE IF f.n < MIN_DATA_POINTS
    THEN [raised |-> "ValueError", msg |-> "Insufficient data points"]
    ELSE LET len == Min(f.n, Max(30, RESISTANCE_LOOKBACK))
         IN  [raised |-> "",
              value |-> <<ClassicFrame(len, f.n - len + 1, f.close, f.sma, f.past_sma, f.atr, f.hp),
                          f.days_until_earnings, f.next_earnings_date>>]

\* a, b = value and a, b, c = value: the tuple, when it has as many elements
\* as there are targets; ValueError otherwise
Unpack(value, targets) ==
    IF Len(value) = targets THEN [raised |-> "", value |-> value]
    ELSE [raised |-> "ValueError",
          msg |-> IF Len(value) > targets THEN "too many values to unpack" ELSE "not enough values to unpack"]

\* TickerInfoAgent.get_ticker_info: never raises; on any failure the fallback
\* dictionary comes back
get_ticker_info(f) ==
    IF f.fetch = "error"
    THEN [sector |-> "unknown (he)", industry |-> "unknown (he)", summary_len |-> 24,
          sector_en |-> "Unknown", market_cap |-> "N/A"]
    ELSE [sector |-> f.sector_en, industry |-> "Semiconductors", summary_len |-> 120,
          sector_en |-> f.sector_en, market_cap |-> "1.84T"]

\* SECTOR_CHANNEL_MAP.get(english_sector) with WEBHOOK_TECH set, then the
\* fallback to WEBHOOK_URL
SectorWebhook(english_sector, WEBHOOK_URL) ==
    LET webhook_url == IF english_sector = "Technology" THEN "technology hook" ELSE ""
    IN  IF webhook_url = "" THEN WEBHOOK_URL ELSE webhook_url

\* a slip that would keep the error of a failed pass bound and test it in the
\* passes that follow
main_iteration_sticky(st, ticker, f) ==
    LET got == TechnicalAnalyzer_analyze_result(f)
        df == IF got.raised = "" THEN got.df ELSE st.locals.df
        sc == IF st.locals.result.raised \notin {"", "not run"} THEN st.locals.result
              ELSE IF got.raised = "" THEN calculate_score(got.df) ELSE got
    IN  IF sc.raised = ""
        THEN [st EXCEPT !.results = Append(@, [ticker |-> ticker, score |-> sc.score,
                                               close_price |-> df[Len(df)].Close]),
                        !.locals = [df |-> df, result |-> sc]]
        ELSE [st EXCEPT !.results = Append(@, [ticker |-> ticker, score |-> NoneVal, error |-> sc.raised]),
                        !.locals = [df |-> df, result |-> sc]]

\* main.py, one pass of `for ticker in TICKERS`, on the variables of main
\* st = (results, locals): the try block up to results.append, or the except
\* block.  df and score stay bound to what an earlier pass assigned when this
\* pass raises before assigning them.
main_iteration(st, ticker, f) ==
    LET got == TechnicalAnalyzer_analyze_result(f)
        df == IF got.raised = "" THEN got.df ELSE st.locals.df
        sc == IF got.raised = "" THEN calculate_score(got.df) ELSE got
    IN  IF sc.raised = ""
        THEN [st EXCEPT !.results = Append(@, [ticker |-> ticker, score |-> sc.score,
                                               close_price |-> df[Len(df)].Close]),
                        !.locals = [df |-> df, result |-> sc]]
        ELSE [st EXCEPT !.results = Append(@, [ticker |-> ticker, score |-> NoneVal, error |-> sc.raised]),
                        !.locals = [df |-> df, result |-> @.result]]

\* main_classic.py, one pass of `for i, ticker in enumerate(TICKERS, 1)`, on
\* the variables of main st = (results, discord_analyses, locals): line 51
\* unpacks the tuple analyze returned into two names, line 54 classifies, lines
\* 58-105 fetch the profile, format, record and queue; lines 107-117 record the
\* failure.
main_classic_iteration(st, ticker, f, now, notifier) ==
    LET got == ClassicAnalyzer_analyze_result(f)
        unpacked == IF got.raised = "" THEN Unpack(got.value, 2) ELSE got
        a == IF unpacked.raised = "" THEN analyze_classic(unpacked.value[1], unpacked.value[2])
             ELSE unpacked
    IN  IF a.raised # ""
        THEN [st EXCEPT !.results = Append(@, [ticker |-> ticker, success |-> FALSE, error |-> a.msg])]
        ELSE LET info == get_ticker_info(f)
                 output == format_output(ticker, a, now)
                 webhook_url == SectorWebhook(info.sector_en, notifier.webhook_url)
             IN  [results |-> Append(st.results,
                                     [ticker |-> ticker, is_positive |-> a.is_positive,
                                      status |-> a.status, success |-> TRUE]),
                  discord_analyses |->
                      IF notifier.made
                      THEN Append(st.discord_analyses,
                                  [ticker |-> ticker, output |-> output, analysis |-> a,
                                   sector |-> info.sector, industry |-> info.industry,
                                   summary_len |-> info.summary_len, market_cap |-> info.market_cap,
                                   webhook_url |-> webhook_url])
                      ELSE st.discord_analyses,
                  locals |-> [df |-> unpacked.value[1], result |-> a]]

---------------------------------------------------------------------------
(* Delivery: send_analysis_message and send_batch_analysis *)

\* send_analysis_message for one item, as far as delivery goes: the value
\* returned and the HTTP requests made.  The payload of the request is the
\* embed of _create_analysis_embed; `response` is how the webhook answers.
send_analysis_message(item, self_webhook_url, response) ==
    LET target_url == IF item.webhook_url # "" THEN item.webhook_url ELSE self_webhook_url
    IN  IF target_url = ""
        THEN [ticker |-> item.ticker, returned |-> FALSE, posts |-> <<>>]
        ELSE [ticker |-> item.ticker, returned |-> (response = "ok"),
              posts |-> <<[url |-> target_url, ticker |-> item.ticker]>>]

\* the loop of send_batch_analysis from item k on; acc holds overall_success
\* and the calls of send_analysis_message made so far
RECURSIVE SendItems(_, _, _, _, _)
SendItems(analyses, k, self_webhook_url, responses, acc) ==
    IF k > Len(analyses) THEN acc
    ELSE LET sent == send_analysis_message(analyses[k], self_webhook_url, responses[k])
         IN  SendItems(analyses, k + 1, self_webhook_url, responses,
                       [done |-> TRUE, called |-> TRUE,
                        overall_success |-> acc.overall_success /\ sent.returned,
                        attempts |-> Append(acc.attempts, sent)])

\* a slip that would give up at the first delivery that fails
send_batch_analysis_stop(analyses, self_webhook_url, responses) ==
    LET failed == {k \in DOMAIN analyses :
                      ~send_analysis_message(analyses[k], self_webhook_url, responses[k]).returned}
        last == IF failed = {} THEN Len(analyses) ELSE CHOOSE k \in failed : \A j \in failed : k <= j
    IN  SendItems(SubSeq(analyses, 1, last), 1, self_webhook_url, responses,
                  [done |-> TRUE, called |-> TRUE, overall_success |-> TRUE, attempts |-> <<>>])

\* ClassicAnalysisNotifier.send_batch_analysis
send_batch_analysis(analyses, self_webhook_url, responses) ==
    SendItems(analyses, 1, self_webhook_url, responses,
              [done |-> TRUE, called |-> TRUE, overall_success |-> TRUE, attempts |-> <<>>])

\* send_batch_analysis was not called
NotCalled == [done |-> TRUE, called |-> FALSE, overall_success |-> TRUE, attempts |-> <<>>]

---------------------------------------------------------------------------
(* The batch runs *)

\* the longest list handed to send_batch_analysis directly
MaxBatch == 3
\* how the webhook answers a request: success, an error status, no connection
Responses == {"ok", "http error", "no connection"}
\* the items of such a list: with or without a webhook URL of their own
Items ==
    {[ticker |-> t, output |-> <<>>, analysis |-> [is_positive |-> TRUE],
      sector |-> "Technology", industry |-> "Semiconductors", summary_len |-> 120,
      market_cap |-> "1.84T", webhook_url |-> u] : t \in {"NVDA", "TSLA"}, u \in {"", "technology hook"}}
Batches == UNION {[1..n -> Items] : n \in 0..MaxBatch}
\* the notifier: constructed, with WEBHOOK_URL or nothing as its webhook URL
Notifiers(n) ==
    {[made |-> TRUE, webhook_url |-> u, responses |-> r] : u \in {"", "main hook"}, r \in [1..n -> Responses]}

BatchInit ==
    /\ pc = "start"
    /\ nbars = NoneVal
    /\ cdf = <<>>
    /\ analysis = NoResult
    /\ tdf = <<>>
    /\ score_out = NoResult
    /\ date_read = NoneVal
    /\ narrative = <<>>
    /\ embed = NoEmbed
    /\ BotIdle
    /\ program \in {"main", "main_classic", "send_batch_analysis"}
    /\ loop_i = 1
    /\ results = <<>>
    /\ loop_locals = NoLocals
    /\ delivery = NoDelivery
    /\ CASE program = "main" ->
                /\ feed \in [DOMAIN TICKERS -> TechFeeds]
                /\ discord_analyses = <<>>
                /\ discord_notifier = NoNotifier
         [] program = "main_classic" ->
                /\ feed \in [DOMAIN TICKERS -> ClassicFeeds]
                /\ discord_analyses = <<>>
                /\ discord_notifier \in Notifiers(Len(TICKERS))
         [] OTHER ->
                /\ feed = <<>>
                /\ discord_analyses \in Batches
                /\ discord_notifier \in Notifiers(Len(discord_analyses))

\* main.py: one pass of the loop
Main_loop ==
    /\ program = "main"
    /\ loop_i <= Len(TICKERS)
    /\ LET new == main_iteration([results |-> results, locals |-> loop_locals],
                                 TICKERS[loop_i], feed[loop_i])
       IN  /\ results' = new.results
           /\ loop_locals' = new.locals
    /\ loop_i' = loop_i + 1
    /\ UNCHANGED <<program, feed, discord_analyses, discord_notifier, delivery>>
    /\ UNCHANGED <<pass_vars, bot_vars>>

\* main_classic.py: one pass of the loop
MainClassic_loop ==
    /\ program = "main_classic"
    /\ loop_i <= Len(TICKERS)
    /\ \E now \in Clock :
           LET new == main_classic_iteration([results |-> results, discord_analyses |-> discord_analyses,
                                              locals |-> loop_locals],
                                             TICKERS[loop_i], feed[loop_i], now, discord_notifier)
           IN  /\ results' = new.results
               /\ discord_analyses' = new.discord_analyses
               /\ loop_locals' = new.locals
    /\ loop_i' = loop_i + 1
    /\ UNCHANGED <<program, feed, discord_notifier, delivery>>
    /\ UNCHANGED <<pass_vars, bot_vars>>

\* main_classic.py after the loop: the queued narratives go to Discord
MainClassic_send ==
    /\ program = "main_classic"
    /\ loop_i = Len(TICKERS) + 1
    /\ ~delivery.done
    /\ delivery' = IF discord_notifier.made /\ discord_analyses # <<>>
                   THEN send_batch_analysis(discord_analyses, discord_notifier.webhook_url,
                                            discord_notifier.responses)
                   ELSE NotCalled
    /\ UNCHANGED <<program, feed, loop_i, results, discord_analyses, loop_locals, discord_notifier>>
    /\ UNCHANGED <<pass_vars, bot_vars>>

\* a caller hands send_batch_analysis a list of its own
SendBatchAnalysis ==
    /\ program = "send_batch_analysis"
    /\ ~delivery.done
    /\ delivery' = send_batch_analysis(discord_analyses, discord_notifier.webhook_url,
                                       discord_notifier.responses)
    /\ UNCHANGED <<program, feed, loop_i, results, discord_analyses, loop_locals, discord_notifier>>
    /\ UNCHANGED <<pass_vars, bot_vars>>

BatchNext ==
    \/ Main_loop
    \/ MainClassic_loop
    \/ MainClassic_send
    \/ SendBatchAnalysis

BatchSpec == BatchInit /\ [][BatchNext]_vars

---------------------------------------------------------------------------
(* The bot: on_message of discord_bot.py *)

\* A message text is a sequence of characters.
Letters == {"A", "B", "D", "K", "L", "N", "R", "S", "T", "V", "Z"}
LowerOf ==
    [c \in Letters |->
        CASE c = "A" -> "a" [] c = "B" -> "b" [] c = "D" -> "d" [] c = "K" -> "k"
          [] c = "L" -> "l" [] c = "N" -> "n" [] c = "R" -> "r" [] c = "S" -> "s"
          [] c = "T" -> "t" [] c = "V" -> "v" [] c = "Z" -> "z"]
LowerLetters == {LowerOf[c] : c \in Letters}
Digits == {"1", "2"}

\* str.isalnum of one character
isalnum(c) == c \in Letters \cup LowerLetters \cup Digits

\* str.upper of one character and of a text
upper_char(c) == IF c \in LowerLetters THEN CHOOSE u \in Letters : LowerOf[u] = c ELSE c
upper(s) == [i \in DOMAIN s |-> upper_char(s[i])]

\* str.strip: the text without its leading and trailing white space
RECURSIVE lstrip(_)
lstrip(s) == IF s # <<>> /\ Head(s) = " " THEN lstrip(Tail(s)) ELSE s
RECURSIVE rstrip(_)
rstrip(s) == IF s # <<>> /\ s[Len(s)] = " " THEN rstrip(SubSeq(s, 1, Len(s) - 1)) ELSE s
strip(s) == rstrip(lstrip(s))

\* ''.join(c for c in content if c.isalnum() or c in ['-', '.'])
TickerChars(content) == SelectSeq(content, LAMBDA c : isalnum(c) \/ c \in {"-", "."})

\* the filters of on_message: the ticker the handler goes on with, or the
\* empty text when the handler returns without doing anything
RequestedTicker(message, target) ==
    IF message.author = "bot" THEN <<>>
    ELSE IF target # "" /\ message.channel # target THEN <<>>
    ELSE LET content == upper(strip(message.content))
         IN  IF (\E i \in DOMAIN content : content[i] = " ") \/ Len(content) > 6 \/ Len(content) < 2
             THEN <<>>
             ELSE TickerChars(content)

\* messages the bot sees
Messages ==
    {[author |-> "user", channel |-> "target", content |-> <<" ", "n", "v", "d", "a", " ">>],
     [author |-> "user", channel |-> "target", content |-> <<"T", "S", "L", "A">>],
     [author |-> "user", channel |-> "target", content |-> <<"!", "n", "v", "d", "a">>],
     [author |-> "bot", channel |-> "target", content |-> <<"N", "V", "D", "A">>],
     [author |-> "user", channel |-> "elsewhere", content |-> <<"T", "S", "L", "A">>],
     [author |-> "user", channel |-> "target", content |-> <<"n", "v", " ", "d", "a">>],
     [author |-> "user", channel |-> "target", content |-> <<"a">>],
     [author |-> "user", channel |-> "target", content |-> <<"t", "s", "l", "a", "1", "2", "2">>],
     [author |-> "user", channel |-> "target", content |-> <<"!", "!">>],
     [author |-> "user", channel |-> "target", content |-> <<"Z", "Z">>],
     [author |-> "user", channel |-> "target", content |-> <<"B", "R", "K", ".", "B">>]}

\* what the data provider answers for a ticker: two listed companies, one
\* request that fails, and too little history for anything else
Service(ticker) ==
    IF ticker = <<"N", "V", "D", "A">>
    THEN [fetch |-> "ok", n |-> MaxBars, close |-> 103, sma |-> 100, past_sma |-> 99, atr |-> 4,
          hp |-> [last |-> 104, mid |-> 110, old |-> 300, past_close |-> 100],
          days_until_earnings |-> 7, next_earnings_date |-> 13, sector_en |-> "Technology"]
    ELSE IF ticker = <<"T", "S", "L", "A">>
    THEN [fetch |-> "ok", n |-> MaxBars, close |-> 90, sma |-> 100, past_sma |-> 100, atr |-> 8,
          hp |-> [last |-> NaN, mid |-> NaN, old |-> 300, past_close |-> 100],
          days_until_earnings |-> NoneVal, next_earnings_date |-> NoneVal, sector_en |-> "Unknown"]
    ELSE IF ticker = <<"B", "R", "K", ".", "B">>
    THEN [fetch |-> "error", n |-> 0, close |-> 0, sma |-> 100, past_sma |-> 100, atr |-> 4,
          hp |-> [last |-> NaN, mid |-> NaN, old |-> NaN, past_close |-> 100],
          days_until_earnings |-> NoneVal, next_earnings_date |-> NoneVal, sector_en |-> "Unknown"]
    ELSE [fetch |-> "ok", n |-> MIN_DATA_POINTS - 1, close |-> 105, sma |-> 100, past_sma |-> 99, atr |-> 4,
          hp |-> [last |-> 104, mid |-> 110, old |-> 300, past_close |-> 100],
          days_until_earnings |-> NoneVal, next_earnings_date |-> NoneVal, sector_en |-> "Unknown"]

\* the calls of on_message that are followed
Requests == {1, 2}

\* how a call to the Discord API ends
ApiOutcomes == {"ok", "HTTPException"}

NoFrame == [ticker |-> <<>>, analysis |-> NoResult, embed |-> NoEmbed]
NoOutput == [status_msg |-> "none", embeds |-> <<>>, calls |-> <<>>]

\* the bot is connected: each call of on_message is about to start
BotInit ==
    /\ pc = "start"
    /\ nbars = NoneVal
    /\ cdf = <<>>
    /\ analysis = NoResult
    /\ tdf = <<>>
    /\ score_out = NoneVal
    /\ date_read = NoneVal
    /\ narrative = <<>>
    /\ embed = NoEmbed
    /\ BatchIdle
    /\ TARGET_CHANNEL_ID \in {"", "target"}
    /\ messages \in [Requests -> Messages]
    /\ handler = [r \in Requests |-> [pc |-> "start", error |-> ""]]
    /\ frames = [r \in Requests |-> NoFrame]
    /\ outputs = [r \in Requests |-> NoOutput]

\* lines 58-83: the filters; an accepted message goes on to the status message
on_message(r) ==
    /\ handler[r].pc = "start"
    /\ LET ticker == RequestedTicker(messages[r], TARGET_CHANNEL_ID)
       IN  /\ handler' = [handler EXCEPT ![r].pc = IF ticker = <<>> THEN "ignored" ELSE "await status"]
           /\ frames' = [frames EXCEPT ![r].ticker = ticker]
    /\ UNCHANGED <<TARGET_CHANNEL_ID, messages, outputs>>
    /\ UNCHANGED <<pass_vars, batch_vars>>

\* line 86: await message.channel.send(...), outside the try block
StatusPosted(r) ==
    /\ handler[r].pc = "await status"
    /\ \E outcome \in ApiOutcomes :
           IF outcome = "ok"
           THEN /\ outputs' = [outputs EXCEPT ![r].status_msg = "processing",
                                              ![r].calls = Append(@, "send status")]
                /\ handler' = [handler EXCEPT ![r].pc = "await analyze"]
           ELSE /\ outputs' = outputs
                /\ handler' = [handler EXCEPT ![r].pc = "raised", ![r].error = outcome]
    /\ UNCHANGED <<TARGET_CHANNEL_ID, messages, frames>>
    /\ UNCHANGED <<pass_vars, batch_vars>>

\* lines 95-101: analyzer.analyze in the executor, the three-target unpacking
\* and analyze_classic
Analyzed(r) ==
    /\ handler[r].pc = "await analyze"
    /\ LET got == ClassicAnalyzer_analyze_result(Service(frames[r].ticker))
           unpacked == IF got.raised = "" THEN Unpack(got.value, 3) ELSE got
           a == IF unpacked.raised = "" THEN analyze_classic(unpacked.value[1], unpacked.value[2])
                ELSE unpacked
       IN  IF a.raised # ""
           THEN /\ handler' = [handler EXCEPT ![r].pc = "await edit", ![r].error = a.raised]
                /\ frames' = frames
           ELSE /\ handler' = [handler EXCEPT ![r].pc = "await info"]
                /\ frames' = [frames EXCEPT ![r].analysis = a]
    /\ UNCHANGED <<TARGET_CHANNEL_ID, messages, outputs>>
    /\ UNCHANGED <<pass_vars, batch_vars>>

\* lines 104-125: get_ticker_info in the executor, format_output and
\* _create_analysis_embed
InfoFetched(r) ==
    /\ handler[r].pc = "await info"
    /\ \E now \in Clock :
           LET got == get_ticker_info(Service(frames[r].ticker))
               info == [market_cap |-> got.market_cap, sector |-> got.sector, industry |-> got.industry,
                        summary_len |-> got.summary_len, earnings_info |-> NoLine]
               output_text == format_output(frames[r].ticker, frames[r].analysis, now)
           IN  frames' = [frames EXCEPT ![r].embed =
                              _create_analysis_embed(output_text, frames[r].analysis.is_positive, info, now)]
    /\ handler' = [handler EXCEPT ![r].pc = "await send"]
    /\ UNCHANGED <<TARGET_CHANNEL_ID, messages, outputs>>
    /\ UNCHANGED <<pass_vars, batch_vars>>

\* line 128: await message.channel.send(embed=embed)
EmbedSent(r) ==
    /\ handler[r].pc = "await send"
    /\ \E outcome \in ApiOutcomes :
           IF outcome = "ok"
           THEN /\ outputs' = [outputs EXCEPT ![r].embeds = Append(@, frames[r].embed),
                                              ![r].calls = Append(@, "send embed")]
                /\ handler' = [handler EXCEPT ![r].pc = "await delete"]
           ELSE /\ outputs' = outputs
                /\ handler' = [handler EXCEPT ![r].pc = "await edit", ![r].error = outcome]
    /\ UNCHANGED <<TARGET_CHANNEL_ID, messages, frames>>
    /\ UNCHANGED <<pass_vars, batch_vars>>

\* line 129: await status_msg.delete(), still inside the try block
StatusDeleted(r) ==
    /\ handler[r].pc = "await delete"
    /\ \E outcome \in ApiOutcomes :
           IF outcome = "ok"
           THEN /\ outputs' = [outputs EXCEPT ![r].status_msg = "deleted",
                                              ![r].calls = Append(@, "delete status")]
                /\ handler' = [handler EXCEPT ![r].pc = "returned"]
           ELSE /\ outputs' = outputs
                /\ handler' = [handler EXCEPT ![r].pc = "await edit", ![r].error = outcome]
    /\ UNCHANGED <<TARGET_CHANNEL_ID, messages, frames>>
    /\ UNCHANGED <<pass_vars, batch_vars>>

\* lines 132-142: the except blocks; an error raised by the edit leaves the handler
StatusEdited(r) ==
    /\ handler[r].pc = "await edit"
    /\ \E outcome \in ApiOutcomes :
           IF outcome = "ok"
           THEN /\ outputs' = [outputs EXCEPT
                                   ![r].status_msg = IF handler[r].error = "ValueError"
                                                     THEN "not found" ELSE "internal error",
                                   ![r].calls = Append(@, "edit status")]
                /\ handler' = [handler EXCEPT ![r].pc = "returned"]
           ELSE /\ outputs' = outputs
                /\ handler' = [handler EXCEPT ![r].pc = "raised", ![r].error = outcome]
    /\ UNCHANGED <<TARGET_CHANNEL_ID, messages, frames>>
    /\ UNCHANGED <<pass_vars, batch_vars>>

BotNext ==
    \E r \in Requests :
        \/ on_message(r)
        \/ StatusPosted(r)
        \/ Analyzed(r)
        \/ InfoFetched(r)
        \/ EmbedSent(r)
        \/ StatusDeleted(r)
        \/ StatusEdited(r)

BotSpec == BotInit /\ [][BotNext]_vars

---------------------------------------------------------------------------
(* Properties *)

LastClassic == cdf[Len(cdf)]
LastTech == tdf[Len(tdf)]
\* analyze_classic returned a result dictionary
ClassicReturned == pc = "classic_done" /\ analysis.raised = ""
\* calculate_score returned (score, summary)
Scored == pc = "tech_done" /\ score_out.raised = ""

StatusLabels == {"breakout", "stretched", "breakdown", "stagnation", "accumulation"}

\* the points announced by the lines of a summary
RECURSIVE LinePoints(_)
LinePoints(parts) == IF parts = <<>> THEN 0 ELSE Head(parts).pts + LinePoints(Tail(parts))
RECURSIVE PositivePoints(_)
PositivePoints(parts) ==
    IF parts = <<>> THEN 0
    ELSE (IF Head(parts).pts > 0 THEN Head(parts).pts ELSE 0) + PositivePoints(Tail(parts))
RECURSIVE NegativePoints(_)
NegativePoints(parts) ==
    IF parts = <<>> THEN 0
    ELSE (IF Head(parts).pts < 0 THEN Head(parts).pts ELSE 0) + NegativePoints(Tail(parts))

\* the lines of one rule
RECURSIVE LinesOf(_, _)
LinesOf(parts, rule) ==
    IF parts = <<>> THEN <<>>
    ELSE (IF Head(parts).rule = rule THEN <<Head(parts)>> ELSE <<>>) \o LinesOf(Tail(parts), rule)

\* the unclamped total shown as Points Added and Penalties
RawTotal(out) == out.total_added + out.total_penalties

\* C1: whenever the long trend average of the last row is defined and the
\* closing price is at or below it, analyze_classic returns status breakdown,
\* whatever the slope label, the distance, the extension flag and the ATR are.
C1_BreakdownAtOrBelowTrend ==
    (pc = "classic_done" /\ Len(cdf) > 0 /\ notna(LastClassic.SMA_150)
        /\ LastClassic.Close <= LastClassic.SMA_150)
    => (analysis.raised = "" /\ analysis.status = "breakdown")

\* C1 witness: a breakdown returned for a price below a rising average that is
\* also extended and carries a severe ATR.
C1_Witness ==
    /\ ClassicReturned
    /\ LastClassic.Close <= LastClassic.SMA_150
    /\ analysis.status = "breakdown"
    /\ analysis.is_extended
    /\ analysis.sma_slope = "rising"
    /\ analysis.atr_warning = "severe"

\* C2: every frame whose long trend average is defined gets one status out of
\* the five labels, and the fallback instruction and the fallback summary of an
\* unrecognised status are never produced.
C2_StatusExhaustive ==
    (pc = "classic_done" /\ Len(cdf) > 0 /\ notna(LastClassic.SMA_150))
    => /\ analysis.raised = ""
       /\ analysis.status \in StatusLabels
       /\ _generate_instruction(analysis) # "wait"
       /\ _generate_summary(analysis) # "wait for a clear trend"

\* C2 witness: a result for price above the average, slope label unknown, not extended.
C2_Witness ==
    /\ ClassicReturned
    /\ analysis.is_positive
    /\ analysis.sma_slope = "unknown"
    /\ ~analysis.is_extended
    /\ analysis.status \in StatusLabels

\* C3: the score lies in [0, MAX_SCORE] and is max(0, sum of the points of the
\* rules that fired); Points Added and Penalties are the unclamped sums.
C3_ScoreClampedSum ==
    Scored =>
        /\ 0 <= score_out.score
        /\ score_out.score <= MAX_SCORE
        /\ score_out.score = Max(0, LinePoints(score_out.summary_parts))
        /\ score_out.total_added = PositivePoints(score_out.summary_parts)
        /\ score_out.total_penalties = NegativePoints(score_out.summary_parts)

\* C3 witness: penalties outweigh the bonuses and the reported score is 0.
C3_Witness ==
    /\ Scored
    /\ score_out.total_added > 0
    /\ RawTotal(score_out) < 0
    /\ score_out.score = 0

\* the frame with the volume of its last row replaced
WithVolume(df, v) == [df EXCEPT ![Len(df)].Volume = v]

\* C4 as stated: of two snapshots that differ only in volume, one above its
\* rolling average and one not above it, the scores differ by exactly
\* SCORE_VOLUME_HIGH.
C4_Original ==
    (Scored /\ notna(LastTech.Volume) /\ notna(LastTech.Volume_MA_20)
        /\ LastTech.Volume > LastTech.Volume_MA_20)
    => \A v \in Volumes :
          v < LastTech.Volume_MA_20
          => score_out.score - calculate_score(WithVolume(tdf, v)).score = SCORE_VOLUME_HIGH

\* C4 amended: the unclamped totals of the two snapshots differ by exactly
\* SCORE_VOLUME_HIGH; the scores differ by exactly SCORE_VOLUME_HIGH when the
\* other rules sum to at least 0 and are both 0 when they sum to less.
C4_VolumeBonusBeforeClamp ==
    (Scored /\ notna(LastTech.Volume) /\ notna(LastTech.Volume_MA_20)
        /\ LastTech.Volume > LastTech.Volume_MA_20)
    => \A v \in Volumes :
          v < LastTech.Volume_MA_20
          => LET low == calculate_score(WithVolume(tdf, v))
             IN  /\ RawTotal(score_out) - RawTotal(low) = SCORE_VOLUME_HIGH
                 /\ IF RawTotal(low) >= 0
                    THEN score_out.score - low.score = SCORE_VOLUME_HIGH
                    ELSE score_out.score = 0 /\ low.score = 0

\* C4 witness: volume above its average while the other rules sum below zero.
C4_Witness ==
    /\ Scored
    /\ notna(LastTech.Volume) /\ notna(LastTech.Volume_MA_20)
    /\ LastTech.Volume > LastTech.Volume_MA_20
    /\ RawTotal(score_out) < 0
    /\ score_out.score = 0

\* C5: accumulation or breakout is returned only when the slope label is
\* rising, the price is above the average and not extended.
C5_AccumulationBreakoutOnlyRising ==
    (ClassicReturned /\ analysis.status \in {"accumulation", "breakout"})
    => (analysis.sma_slope = "rising" /\ analysis.is_positive /\ ~analysis.is_extended)

\* the ordered rule list of C6 on price, average and slope label
RuleList(price, sma, slope) ==
    IF (price - sma) * 100 > EXTENSION_THRESHOLD * sma THEN "stretched"
    ELSE IF slope \in {"declining", "flat"} THEN "stagnation"
    ELSE IF (price - sma) * 100 < ACCUMULATION_BAND * sma THEN "accumulation"
    ELSE "breakout"

\* C6: with price above the average and a slope label of rising, flat or
\* declining, the status is the result of the ordered rule list: stretched
\* above 20%, else stagnation for a declining or flat slope, else accumulation
\* below 5%, else breakout; exactly 5% and exactly 20% with a rising slope
\* give breakout.
C6_OrderedRules ==
    (ClassicReturned /\ LastClassic.Close > LastClassic.SMA_150
        /\ analysis.sma_slope \in {"rising", "flat", "declining"})
    => /\ analysis.status = RuleList(LastClassic.Close, LastClassic.SMA_150, analysis.sma_slope)
       /\ (analysis.sma_slope = "rising"
            /\ (LastClassic.Close - LastClassic.SMA_150) * 100
                 \in {ACCUMULATION_BAND * LastClassic.SMA_150, EXTENSION_THRESHOLD * LastClassic.SMA_150})
          => analysis.status = "breakout"

\* C6 witness: rising slope, price exactly 5% above the average, status breakout.
C6_Witness ==
    /\ ClassicReturned
    /\ analysis.sma_slope = "rising"
    /\ (LastClassic.Close - LastClassic.SMA_150) * 100 = ACCUMULATION_BAND * LastClassic.SMA_150
    /\ analysis.status = "breakout"

\* the slope window of the frame is filled: enough rows and both averages defined
SlopeKnown ==
    /\ Len(cdf) >= SMA_SLOPE_LOOKBACK + 1
    /\ notna(LastClassic.SMA_150)
    /\ notna(cdf[Len(cdf) - SMA_SLOPE_LOOKBACK].SMA_150)

\* percentage change of the average over the slope window
SlopeChange ==
    Frac((LastClassic.SMA_150 - cdf[Len(cdf) - SMA_SLOPE_LOOKBACK].SMA_150) * 100,
         cdf[Len(cdf) - SMA_SLOPE_LOOKBACK].SMA_150)
NegThreshold == [n |-> -SMA_SLOPE_FLAT_THRESHOLD.n, d |-> SMA_SLOPE_FLAT_THRESHOLD.d]

\* C7 as stated: rising exactly when the change exceeds +0.5, declining
\* exactly when it is below -0.5, flat otherwise (also at exactly +0.5 and
\* -0.5), unknown exactly when the frame has fewer than 11 rows or one of the
\* two averages is undefined.
C7_Original ==
    ClassicReturned =>
        /\ (analysis.sma_slope = "unknown") <=> ~SlopeKnown
        /\ SlopeKnown =>
            /\ (analysis.sma_slope = "rising") <=> FracGt(SlopeChange, SMA_SLOPE_FLAT_THRESHOLD)
            /\ (analysis.sma_slope = "declining") <=> FracLt(SlopeChange, NegThreshold)
            /\ (analysis.sma_slope = "flat")
                 <=> (FracLe(SlopeChange, SMA_SLOPE_FLAT_THRESHOLD) /\ FracGe(SlopeChange, NegThreshold))

\* C7 amended: flat exactly when the change is strictly between -0.5 and +0.5,
\* rising exactly when it is +0.5 or more, declining exactly when it is -0.5
\* or less, unknown exactly when the frame has fewer than 11 rows or one of
\* the two averages is undefined.
C7_SlopeLabelInclusive ==
    ClassicReturned =>
        /\ (analysis.sma_slope = "unknown") <=> ~SlopeKnown
        /\ SlopeKnown =>
            /\ (analysis.sma_slope = "rising") <=> FracGe(SlopeChange, SMA_SLOPE_FLAT_THRESHOLD)
            /\ (analysis.sma_slope = "declining") <=> FracLe(SlopeChange, NegThreshold)
            /\ (analysis.sma_slope = "flat")
                 <=> (FracLt(SlopeChange, SMA_SLOPE_FLAT_THRESHOLD) /\ FracGt(SlopeChange, NegThreshold))

\* C7 witness: a change of exactly +0.5 labelled rising.
C7_Witness ==
    /\ ClassicReturned
    /\ SlopeKnown
    /\ SlopeChange.n * SMA_SLOPE_FLAT_THRESHOLD.d = SMA_SLOPE_FLAT_THRESHOLD.n * SlopeChange.d
    /\ analysis.sma_slope = "rising"

\* C8: analyze_classic raises exactly when the frame is empty or the long
\* trend average of its last row is undefined; an undefined ATR, a short slope
\* history or a missing High never make it raise.
C8_RaisesOnlyWithoutTrend ==
    pc = "classic_done" =>
        ((analysis.raised # "") <=> (Len(cdf) = 0 \/ isna(LastClassic.SMA_150)))

\* C8 witness: a result returned with ATR undefined, fewer rows than the slope
\* window and no High value.
C8_Witness ==
    /\ ClassicReturned
    /\ isna(LastClassic.ATR)
    /\ Len(cdf) < SMA_SLOPE_LOOKBACK + 1
    /\ analysis.is_positive
    /\ analysis.resistance = NoneVal
    /\ analysis.sma_slope = "unknown"

\* C9: a series shorter than the long trend window never yields a status or a
\* score: ClassicAnalyzer.analyze fails reporting the shortfall, and
\* TechnicalAnalyzer.analyze followed by calculate_score fails too.
C9_ShortSeriesFails ==
    (nbars # NoneVal /\ nbars < SMA_PERIOD)
    => /\ pc \notin {"classic_df", "classic_done"}
       /\ pc = "classic_failed"
            => (analysis.raised = "ValueError" /\ analysis.have = nbars /\ analysis.need = SMA_PERIOD)
       /\ pc = "tech_done" => score_out.raised # ""

Indicators == {"SMA_150", "EMA_50", "RSI", "Volume_MA_20", "CCI", "BBands_Upper"}
Rules == {"SMA_150", "EMA_50", "RSI", "Volume", "CCI", "BBands_Upper"}
RuleOf(ind) == IF ind = "Volume_MA_20" THEN "Volume" ELSE ind
ValuesOf(ind) ==
    CASE ind = "SMA_150" -> TechSMAs
      [] ind = "EMA_50" -> TechEMAs
      [] ind = "RSI" -> RSIs
      [] ind = "Volume_MA_20" -> VolumeMAs
      [] ind = "CCI" -> CCIs
      [] ind = "BBands_Upper" -> BBandsUppers
\* the frame with one indicator of its last row replaced
WithIndicator(df, ind, v) == [df EXCEPT ![Len(df)][ind] = v]

\* C10: calculate_score does not raise on undefined indicators; an undefined
\* indicator's rule contributes no points, and every other rule writes the same
\* line as it does when that indicator is present.  With oscillator and volume
\* average undefined and price 3% above the average, the score is the sum of
\* the other rules' points; analyze_classic returns accumulation for price 3%
\* above a rising average.
C10_MissingIndicatorsDegrade ==
    /\ (pc = "tech_done" /\ Len(tdf) > 0) => score_out.raised = ""
    /\ (pc = "tech_done" /\ Len(tdf) > 0) =>
          \A ind \in Indicators :
              isna(LastTech[ind]) =>
                  /\ LinePoints(LinesOf(score_out.summary_parts, RuleOf(ind))) = 0
                  /\ \A i \in 1..Len(score_out.summary_parts) :
                        score_out.summary_parts[i].rule = RuleOf(ind)
                        => score_out.summary_parts[i].pts = 0
                  /\ \A v \in ValuesOf(ind) :
                        LET present == calculate_score(WithIndicator(tdf, ind, v))
                        IN  /\ present.raised = ""
                            /\ \A r \in Rules \ {RuleOf(ind)} :
                                  LinesOf(present.summary_parts, r) = LinesOf(score_out.summary_parts, r)
    /\ (pc = "tech_done" /\ Len(tdf) > 0 /\ isna(LastTech.RSI) /\ isna(LastTech.Volume_MA_20)
            /\ notna(LastTech.SMA_150) /\ LastTech.Close * 100 = 103 * LastTech.SMA_150)
       => score_out.score =
            Max(0, LinePoints(LinesOf(score_out.summary_parts, "SMA_150"))
                   + LinePoints(LinesOf(score_out.summary_parts, "EMA_50"))
                   + LinePoints(LinesOf(score_out.summary_parts, "CCI"))
                   + LinePoints(LinesOf(score_out.summary_parts, "BBands_Upper")))
    /\ (pc = "classic_done" /\ Len(cdf) > 0 /\ notna(LastClassic.SMA_150)
            /\ LastClassic.Close * 100 = 103 * LastClassic.SMA_150
            /\ _calculate_sma_slope(cdf) = "rising")
       => (analysis.raised = "" /\ analysis.status = "accumulation")

\* C10 witness: a score returned with oscillator and volume average undefined,
\* price 3% above the average, the trend and medium-trend rules fired.
C10_Witness ==
    /\ Scored
    /\ isna(LastTech.RSI) /\ isna(LastTech.Volume_MA_20)
    /\ notna(LastTech.SMA_150) /\ LastTech.Close * 100 = 103 * LastTech.SMA_150
    /\ LinePoints(LinesOf(score_out.summary_parts, "SMA_150")) = SCORE_SMA_CROSSOVER
    /\ LinePoints(LinesOf(score_out.summary_parts, "EMA_50")) = SCORE_EMA_ABOVE
    /\ score_out.score = SCORE_SMA_CROSSOVER + SCORE_EMA_ABOVE

\* C11: every indicator undefined at the last row is flagged in the summary of
\* calculate_score: its rule writes a 'not available' line, and writes nothing
\* else (no failed comparison, no silence).
C11_UndefinedFlaggedUnavailable ==
    Scored =>
        \A ind \in Indicators :
            isna(LastTech[ind]) =>
                LET lines == LinesOf(score_out.summary_parts, RuleOf(ind))
                IN  /\ lines # <<>>
                    /\ \A i \in 1..Len(lines) : lines[i].text = "not available"

\* format_output returned the narrative of the result in `analysis`
Formatted == pc = "formatted"
\* the kinds of the lines of a text, in order
Kinds(text) == [i \in 1..Len(text) |-> text[i].kind]
\* the lines of one kind
LinesOfKind(text, kind) == SelectSeq(text, LAMBDA l : l.kind = kind)

\* C12: format_output emits identity+price, date, earnings countdown, entry-zone
\* or no-entry, status, explanation, volatility-risk, instruction and summary in
\* this order; the earnings line is there exactly when a countdown was supplied
\* and every other line, the volatility-risk line included, for every result.
C12_FixedLineOrder ==
    Formatted =>
        Kinds(narrative) =
            <<"header", "date">>
            \o (IF analysis.days_until_earnings # NoneVal THEN <<"earnings">> ELSE <<>>)
            \o <<"signal", "status", "explanation", "risk", "instruction", "summary">>

\* the instruction line of a narrative
InstructionOf(text) == LinesOfKind(text, "instruction")[1].text[1]
\* the instruction the specification gives for a status
InstructionFor(status, is_extended) ==
    CASE status = "breakdown" -> "stand aside"
      [] status = "stretched" -> "do not chase"
      [] status = "stagnation" -> "wait for pullback"
      [] status = "accumulation" -> "accumulate"
      [] status = "breakout" /\ ~is_extended -> "accumulate"
      [] OTHER -> "none"

\* C13: the instruction line of the narrative is a fixed function of the status:
\* breakdown gives 'stand aside', stretched 'do not chase', stagnation 'wait
\* for pullback', accumulation and a breakout that is not extended
\* 'accumulate'; price 200 against an average of 140 gives status stretched and
\* 'do not chase'.
C13_InstructionByStatus ==
    Formatted =>
        /\ Len(LinesOfKind(narrative, "instruction")) = 1
        /\ InstructionOf(narrative) = InstructionFor(analysis.status, analysis.is_extended)
        /\ (analysis.current_price = 200 /\ analysis.sma_150 = 140)
           => (analysis.status = "stretched" /\ InstructionOf(narrative) = "do not chase")

\* C13 witness: the narrative of price 200 against an average of 140 tells not to chase.
C13_Witness ==
    /\ Formatted
    /\ analysis.current_price = 200 /\ analysis.sma_150 = 140
    /\ analysis.status = "stretched"
    /\ InstructionOf(narrative) = "do not chase"

\* the entry-zone or no-entry line and the explanation line of a narrative
SignalOf(text) == LinesOfKind(text, "signal")[1]
ExplanationOf(text) == LinesOfKind(text, "explanation")[1]

\* C14: the narrative agrees with the status label: the no-entry line and the
\* 'below the average' explanation are emitted exactly when the status is
\* breakdown, the over-extension wording of the explanation exactly when it is
\* stretched, and an entry-zone line exactly for the statuses other than
\* breakdown (the explanation compares the distance with the extension
\* threshold itself and still agrees with the label).
C14_NarrativeAgreesWithStatus ==
    Formatted =>
        /\ Len(LinesOfKind(narrative, "signal")) = 1
        /\ Len(LinesOfKind(narrative, "explanation")) = 1
        /\ SignalOf(narrative).text[1] = "no entry" <=> analysis.status = "breakdown"
        /\ ExplanationOf(narrative).text[1] = "below the average" <=> analysis.status = "breakdown"
        /\ ExplanationOf(narrative).text[3] = "but far from the line" <=> analysis.status = "stretched"
        /\ SignalOf(narrative).text[1] = "entry zone" <=> analysis.status # "breakdown"

\* C14 witness: price exactly at the extension threshold above a rising
\* average: a breakout with an entry-zone line and the plain explanation.
C14_Witness ==
    /\ Formatted
    /\ analysis.is_positive
    /\ analysis.distance_from_sma.n = EXTENSION_THRESHOLD * analysis.distance_from_sma.d
    /\ analysis.status = "breakout"
    /\ SignalOf(narrative).text[1] = "entry zone"
    /\ ExplanationOf(narrative).text[3] = "at a distance"

\* the frame with the ATR of its last row replaced
WithLastATR(df, atr) == [df EXCEPT ![Len(df)].ATR = atr]

\* C15: the volatility signal never alters the primary classification: the
\* result for a frame that differs only in the ATR of the last bar has the same
\* status, trend sign, slope label, extension flag, distance and entry zone;
\* the bucket is none below 5% of price, 'warning' from 5% and 'severe' from 8%.
C15_AtrLeavesClassificationAlone ==
    ClassicReturned =>
        /\ \A atr \in ATRs \cup {NaN} :
              LET twin == analyze_classic(WithLastATR(cdf, atr), analysis.days_until_earnings)
              IN  /\ twin.raised = ""
                  /\ twin.status = analysis.status
                  /\ twin.is_positive = analysis.is_positive
                  /\ twin.sma_slope = analysis.sma_slope
                  /\ twin.is_extended = analysis.is_extended
                  /\ twin.distance_from_sma = analysis.distance_from_sma
                  /\ twin.entry_zone = analysis.entry_zone
                  /\ twin.resistance = analysis.resistance
        /\ (notna(LastClassic.ATR) /\ LastClassic.Close > 0) =>
              LET atr100 == LastClassic.ATR * 100
                  price == LastClassic.Close
              IN  /\ analysis.atr_pct = [n |-> atr100, d |-> price]
                  /\ analysis.atr_warning = "severe" <=> atr100 >= ATR_SEVERE_THRESHOLD * price
                  /\ analysis.atr_warning = "warning"
                        <=> (atr100 >= ATR_WARNING_THRESHOLD * price /\ atr100 < ATR_SEVERE_THRESHOLD * price)
                  /\ analysis.atr_warning = "None" <=> atr100 < ATR_WARNING_THRESHOLD * price

\* C15 witness: an accumulation reported with an ATR in the 'warning' bucket;
\* the twin frame with a smaller ATR has no bucket and the same status.
C15_Witness ==
    /\ ClassicReturned
    /\ notna(LastClassic.ATR)
    /\ analysis.atr_warning = "warning"
    /\ analysis.status = "accumulation"
    /\ \E atr \in ATRs :
          LET twin == analyze_classic(WithLastATR(cdf, atr), analysis.days_until_earnings)
          IN  twin.atr_warning = "None" /\ twin.status = "accumulation"

\* the ticker format_output was called with
TickerOf(text) == text[1].text[1]

EmbedMade == pc \in {"embedded", "sent"} /\ embed.made
\* the lines the notifier works on
EmbedLines == NonEmptyLines(narrative)
\* the markers that decide a section
SectionMarks ==
    {"calendar", "hourglass", "target", "no entry", "status:", "risk level", "risk warning",
     "instruction:"}
\* the section a marker stands for
MarkedSection(line) ==
    IF line.marks \cap {"calendar", "hourglass"} # {} THEN "events"
    ELSE IF line.marks \cap {"target", "no entry"} # {} THEN "signal"
    ELSE IF "status:" \in line.marks THEN "status"
    ELSE IF line.marks \cap {"risk level", "risk warning"} # {} THEN "risk"
    ELSE IF "instruction:" \in line.marks THEN "strategy"
    ELSE "None"
Range(seq) == {seq[i] : i \in 1..Len(seq)}
\* the sections of a table that hold a line (bold markers apart)
SectionsHolding(sections, line) ==
    {name \in {"events", "status", "strategy"} :
        \E l \in Range(sections[name]) : l = line \/ l = Unbold(line)}
    \cup {name \in {"signal", "risk", "summary_text"} :
            sections[name] # NoLine /\ (sections[name] = line \/ sections[name] = Unbold(line))}

\* C17 as stated: whenever the text has two non-empty lines or more, the last
\* of them ends up in the summary section.
C17_Original ==
    (EmbedMade /\ Len(EmbedLines) >= 2)
    => embed.sections.summary_text = EmbedLines[Len(EmbedLines)]

\* C17: whenever the text has two non-empty lines or more, the last of them is
\* the summary exactly when it carries no section marker; a last line with a
\* marker goes to the section of its marker and the summary stays empty.
C17_LastUnmarkedLineIsSummary ==
    (EmbedMade /\ Len(EmbedLines) >= 2) =>
        LET last == EmbedLines[Len(EmbedLines)]
        IN  IF last.marks \cap SectionMarks = {}
            THEN embed.sections.summary_text = last
            ELSE /\ embed.sections.summary_text = NoLine
                 /\ MarkedSection(last) \in SectionsHolding(embed.sections, last)

\* C17 witness: a text handed in directly that ends with a blank line after an
\* instruction line: the instruction is the last non-empty line, it is filed
\* under strategy and there is no summary.
C17_Witness ==
    /\ pc = "sent" /\ embed.made
    /\ Len(EmbedLines) >= 2
    /\ Len(narrative) > Len(EmbedLines)
    /\ "instruction:" \in EmbedLines[Len(EmbedLines)].marks
    /\ embed.sections.summary_text = NoLine
    /\ embed.sections.strategy = <<EmbedLines[Len(EmbedLines)]>>

\* a text with two of its lines exchanged
Swap(lines, i, j) == [lines EXCEPT ![i] = lines[j], ![j] = lines[i]]
\* the exchanges of two lines after the header
Swaps(lines) == {p \in (2..Len(lines)) \X (2..Len(lines)) : p[1] < p[2]}
\* no line twice, one entry line and one risk line at most
NarrativeLike(lines) ==
    /\ \A i, j \in 1..Len(lines) : lines[i] = lines[j] => i = j
    /\ Cardinality({i \in 2..Len(lines) : MarkedSection(lines[i]) = "signal"}) <= 1
    /\ Cardinality({i \in 2..Len(lines) : MarkedSection(lines[i]) = "risk"}) <= 1
\* the section an unmarked line at position p falls into: the summary when it
\* is the last line, else the section opened by the nearest line before it that
\* carries an entry, status, risk or instruction marker, if that is the status
\* or the instruction line, else none
UnmarkedSection(lines, p) ==
    IF p = Len(lines) THEN "summary_text"
    ELSE LET before == {q \in 2..(p - 1) : MarkedSection(lines[q]) \notin {"None", "events"}}
         IN  IF before = {} THEN "None"
             ELSE LET q == CHOOSE x \in before : \A y \in before : y <= x
                  IN  IF MarkedSection(lines[q]) \in {"status", "strategy"}
                      THEN MarkedSection(lines[q]) ELSE "None"
\* every line after the header sits in the section of its marker, or, without
\* a marker, in the section its position gives it
AssignedByRule(lines, sections) ==
    \A p \in 2..Len(lines) :
        LET want == IF MarkedSection(lines[p]) # "None" THEN MarkedSection(lines[p])
                    ELSE UnmarkedSection(lines, p)
        IN  SectionsHolding(sections, lines[p]) = (IF want = "None" THEN {} ELSE {want})

\* C18 as stated: after any exchange of two lines of a narrative (header
\* apart), every line is in the same section as in the original order, and in
\* one at least.
C18_Original ==
    (pc = "embedded" /\ embed.made) =>
        LET lines == EmbedLines
        IN  \A sw \in Swaps(lines) :
                LET re == ParseSections(Swap(lines, sw[1], sw[2]))
                IN  \A p \in 2..Len(lines) :
                        /\ SectionsHolding(re, lines[p]) = SectionsHolding(embed.sections, lines[p])
                        /\ SectionsHolding(re, lines[p]) # {}

\* C18: the lines that carry a section marker are assigned by marker, not by
\* position: in the original order and after any exchange of two lines, each
\* of them is in the section of its marker and none is lost.  The lines without
\* a marker are assigned by position: the last line is the summary, a line
\* whose nearest marked predecessor (date and earnings lines apart) is the
\* status or the instruction line joins that section, any other is dropped.
C18_MarkedLinesByMarker ==
    /\ EmbedMade =>
          LET lines == EmbedLines
          IN  NarrativeLike(lines) => AssignedByRule(lines, embed.sections)
    /\ Formatted =>
          LET lines == NonEmptyLines(narrative)
          IN  \A sw \in Swaps(lines) :
                  LET re == Swap(lines, sw[1], sw[2])
                  IN  AssignedByRule(re, ParseSections(re))

\* C18 witness: a narrative of format_output whose explanation and summary
\* lines change places: the explanation becomes the summary, the closing
\* sentence joins the status section, and the marked lines stay where they were.
C18_Witness ==
    /\ pc = "embedded" /\ embed.made
    /\ LET lines == EmbedLines
       IN  \E sw \in Swaps(lines) :
              LET re == ParseSections(Swap(lines, sw[1], sw[2]))
              IN  /\ lines[sw[1]].kind = "explanation"
                  /\ lines[sw[2]].kind = "summary"
                  /\ re.summary_text = lines[sw[1]]
                  /\ lines[sw[2]] \in Range(re.status)
                  /\ re.signal = embed.sections.signal
                  /\ re.risk = embed.sections.risk
                  /\ re.strategy = embed.sections.strategy
                  /\ re.events = embed.sections.events

\* the section table holds the lines of a narrative of format_output kind by
\* kind, whatever is to be said of its risk line
SectionsOfNarrative(n, s) ==
    /\ NonEmptyLines(n) = n
    /\ s.events = LinesOfKind(n, "date") \o LinesOfKind(n, "earnings")
    /\ s.signal = Unbold(SignalOf(n))
    /\ s.status = LinesOfKind(n, "status") \o LinesOfKind(n, "explanation")
    /\ Len(s.status) = 2
    /\ s.strategy = LinesOfKind(n, "instruction")
    /\ Len(s.strategy) = 1
    /\ s.summary_text = n[Len(n)]
    /\ s.summary_text.kind = "summary"
    /\ \A p \in 2..Len(n) : Cardinality(SectionsHolding(s, n[p])) = 1

\* C19: for every narrative of format_output the embed files each line after
\* the header under exactly one section and drops none: events hold the date
\* line and the earnings line if there is one, signal the entry or no-entry
\* line, status the status line followed by the explanation, risk the
\* volatility-risk line, strategy the instruction, summary the closing
\* sentence; every line is kept as it is, bold markers apart.
C19_SectionsOfNarrative ==
    (pc = "embedded") =>
        /\ embed.made
        /\ SectionsOfNarrative(narrative, embed.sections)
        /\ embed.sections.risk # NoLine
        /\ embed.sections.risk.kind = "risk"
        /\ <<embed.sections.risk>> = LinesOfKind(narrative, "risk")

\* the defined Highs of the last RESISTANCE_LOOKBACK rows of the frame (of all
\* rows when it has fewer)
RecentHighs ==
    {cdf[i].High : i \in {j \in 1..Len(cdf) : j > Len(cdf) - RESISTANCE_LOOKBACK /\ notna(cdf[j].High)}}
IsMaxOf(h, highs) == h \in highs /\ \A g \in highs : g <= h

\* C20 as stated: whenever the price is above the trend average the result
\* carries support = the average and resistance = the highest defined High of
\* the last 30 bars; when it is not above, no pair.
C20_Original ==
    ClassicReturned =>
        IF LastClassic.Close > LastClassic.SMA_150
        THEN /\ analysis.entry_zone.present
             /\ analysis.entry_zone.support = LastClassic.SMA_150
             /\ IsMaxOf(analysis.entry_zone.resistance, RecentHighs)
        ELSE analysis.entry_zone = NoEntryZone /\ analysis.resistance = NoneVal

\* C20: when the price is above the trend average and a High is defined among
\* the last 30 bars of the frame (all bars of a shorter frame), the result
\* carries support = the current average and resistance = the highest of those
\* Highs; when no High is defined there, or the price is not above the average,
\* no support/resistance pair is reported.
C20_EntryZone ==
    ClassicReturned =>
        IF LastClassic.Close > LastClassic.SMA_150 /\ RecentHighs # {}
        THEN /\ analysis.entry_zone.present
             /\ analysis.entry_zone.support = LastClassic.SMA_150
             /\ IsMaxOf(analysis.entry_zone.resistance, RecentHighs)
             /\ analysis.resistance = analysis.entry_zone.resistance
        ELSE analysis.entry_zone = NoEntryZone /\ analysis.resistance = NoneVal

\* C20 witness: a frame longer than the lookback whose highest High lies in
\* its first row, outside the window: the resistance is the highest High of the
\* window and the support is the average.
C20_Witness ==
    /\ ClassicReturned
    /\ Len(cdf) > RESISTANCE_LOOKBACK
    /\ analysis.is_positive
    /\ analysis.entry_zone.present
    /\ analysis.entry_zone.support = LastClassic.SMA_150
    /\ notna(cdf[1].High)
    /\ cdf[1].High > analysis.entry_zone.resistance

---------------------------------------------------------------------------
(* The scoring rules one by one *)

\* the points the lines of one rule add to, or take from, the score
RulePoints(out, rule) == LinePoints(LinesOf(out.summary_parts, rule))
\* the rule wrote a line that announces exactly p points
Awarded(out, rule, p) ==
    \E i \in DOMAIN out.summary_parts :
        out.summary_parts[i].rule = rule /\ out.summary_parts[i].pts = p

\* C23: with a defined trend average the long-trend rule awards the crossover
\* bonus exactly when the price is above the average by more than 0% and at
\* most SMA_CROSSOVER_PCT, the established-trend bonus exactly when it is above
\* by more than SMA_CROSSOVER_PCT, nothing when the price is at or below the
\* average, and never both bonuses.
C23_TrendBonusExclusive ==
    (Scored /\ notna(LastTech.SMA_150)) =>
        LET deviation == Frac((LastTech.Close - LastTech.SMA_150) * 100, LastTech.SMA_150)
            crossover == Awarded(score_out, "SMA_150", SCORE_SMA_CROSSOVER)
            established == Awarded(score_out, "SMA_150", SCORE_SMA_ESTABLISHED)
        IN  /\ crossover <=> (FracGt(deviation, Whole(0)) /\ FracLe(deviation, Whole(SMA_CROSSOVER_PCT)))
            /\ established <=> FracGt(deviation, Whole(SMA_CROSSOVER_PCT))
            /\ LastTech.Close <= LastTech.SMA_150 => RulePoints(score_out, "SMA_150") = 0
            /\ ~(crossover /\ established)
            /\ RulePoints(score_out, "SMA_150") \in {0, SCORE_SMA_CROSSOVER, SCORE_SMA_ESTABLISHED}

\* C23 witness: a price exactly SMA_CROSSOVER_PCT above the average scored with
\* the crossover bonus.
C23_Witness ==
    /\ Scored
    /\ notna(LastTech.SMA_150)
    /\ (LastTech.Close - LastTech.SMA_150) * 100 = SMA_CROSSOVER_PCT * LastTech.SMA_150
    /\ Awarded(score_out, "SMA_150", SCORE_SMA_CROSSOVER)
    /\ ~Awarded(score_out, "SMA_150", SCORE_SMA_ESTABLISHED)

\* C24: for a defined oscillator value the rule has exactly one of three
\* outcomes: the optimal-range bonus for a value in [RSI_OPTIMAL_LOW,
\* RSI_OPTIMAL_HIGH], the extreme penalty for a value above RSI_OVERBOUGHT or
\* below RSI_OVERSOLD, no adjustment otherwise; bonus and penalty never both.
C24_OscillatorOneOutcome ==
    (Scored /\ notna(LastTech.RSI)) =>
        LET rsi_value == LastTech.RSI
            bonus == Awarded(score_out, "RSI", SCORE_RSI_OPTIMAL)
            penalty == Awarded(score_out, "RSI", PENALTY_RSI_EXTREME)
        IN  /\ bonus <=> (RSI_OPTIMAL_LOW <= rsi_value /\ rsi_value <= RSI_OPTIMAL_HIGH)
            /\ penalty <=> (rsi_value > RSI_OVERBOUGHT \/ rsi_value < RSI_OVERSOLD)
            /\ ~(bonus /\ penalty)
            /\ Len(LinesOf(score_out.summary_parts, "RSI")) = 1
            /\ RulePoints(score_out, "RSI") =
                   (IF bonus THEN SCORE_RSI_OPTIMAL ELSE IF penalty THEN PENALTY_RSI_EXTREME ELSE 0)

\* C24 witness: a value exactly at RSI_OVERBOUGHT scored without adjustment.
C24_Witness ==
    /\ Scored
    /\ LastTech.RSI = RSI_OVERBOUGHT
    /\ RulePoints(score_out, "RSI") = 0
    /\ ~Awarded(score_out, "RSI", PENALTY_RSI_EXTREME)

---------------------------------------------------------------------------
(* Consistency of the classic result *)

\* C26: in every result of analyze_classic the status is stretched exactly when
\* is_positive and is_extended are both true; so a breakout is never extended,
\* and the instruction 'do not chase' is given, by _generate_instruction and in
\* the narrative, exactly when the status is stretched.
C26_StretchedIffPositiveExtended ==
    /\ ClassicReturned =>
           /\ analysis.status = "stretched" <=> (analysis.is_positive /\ analysis.is_extended)
           /\ analysis.status = "breakout" => ~analysis.is_extended
           /\ _generate_instruction(analysis) = "do not chase" <=> analysis.status = "stretched"
    /\ Formatted =>
           (InstructionOf(narrative) = "do not chase" <=> analysis.status = "stretched")

\* C26 witness: an extended price above an average that is not rising is
\* reported stretched and told not to chase.
C26_Witness ==
    /\ ClassicReturned
    /\ analysis.is_positive /\ analysis.is_extended
    /\ analysis.sma_slope \in {"flat", "declining"}
    /\ analysis.status = "stretched"
    /\ _generate_instruction(analysis) = "do not chase"

\* every bar of the frame has a High, and it is at least the bar's Close
HighsCoverCloses == \A i \in DOMAIN cdf : notna(cdf[i].High) /\ cdf[i].High >= cdf[i].Close
\* the wording of the entry-zone line for a price above its resistance
RetestWording == "resistance broken, retest"

\* C27: if every bar of the frame has High >= Close, a reported entry zone has
\* its resistance at least the current price and strictly above its support,
\* and the narrative of the result never carries the retest wording.
C27_NoRetestWhenHighsCoverCloses ==
    (ClassicReturned /\ HighsCoverCloses /\ analysis.entry_zone.present) =>
        /\ analysis.entry_zone.resistance >= analysis.current_price
        /\ analysis.entry_zone.resistance > analysis.entry_zone.support
        /\ EntryLine(analysis).text[2] # RetestWording
        /\ \A ticker \in Tickers, d \in Clock :
               SignalOf(format_output(ticker, analysis, d)).text[2] # RetestWording

\* C27 witness: a frame of several bars whose earlier Highs lie below the
\* current price while every High covers the Close of its own bar: the
\* resistance is the High of the last bar.
C27_Witness ==
    /\ ClassicReturned
    /\ HighsCoverCloses
    /\ Len(cdf) > 1
    /\ analysis.entry_zone.present
    /\ cdf[1].High < analysis.current_price
    /\ analysis.entry_zone.resistance = LastClassic.High
    /\ EntryLine(analysis).text[2] = "between the average and the breakout"

---------------------------------------------------------------------------
(* The length of the company-profile field *)

\* the fields of the embed with the given name
FieldsNamed(e, name) == SelectSeq(e.fields, LAMBDA f : f.name = name)
\* the number of characters of the value of the company-profile field: the
\* (possibly cut) one-line summary, passed through _bidi_safe
ProfileFieldLen(f) ==
    IF f.quoted THEN _bidi_safe_len(f.value[1].len, 1) ELSE f.value[1].len

\* C28: whatever the length of the company summary, the value of the
\* company-profile field of the embed is at most FIELD_VALUE_LIMIT characters.
C28_ProfileFieldWithinLimit ==
    EmbedMade =>
        LET profile == FieldsNamed(embed, "company profile")
        IN  \A i \in DOMAIN profile : ProfileFieldLen(profile[i]) <= FIELD_VALUE_LIMIT

---------------------------------------------------------------------------
(* The batch runs: isolation of failures *)

\* the batch loop is over
LoopDone == program \in {"main", "main_classic"} /\ loop_i = Len(TICKERS) + 1
\* the sequence without its j-th element
RemoveAt(s, j) == SubSeq(s, 1, j - 1) \o SubSeq(s, j + 1, Len(s))
\* the entry records a failure
FailedEntry(prog, entry) == IF prog = "main" THEN entry.score = NoneVal ELSE ~entry.success
\* the variables of main after the loop has gone through `tickers` from position k
RECURSIVE RunLoop(_, _, _, _, _)
RunLoop(prog, tickers, feeds, k, st) ==
    IF k > Len(tickers) THEN st
    ELSE RunLoop(prog, tickers, feeds, k + 1,
                 IF prog = "main" THEN main_iteration(st, tickers[k], feeds[k])
                 ELSE main_classic_iteration(st, tickers[k], feeds[k], CHOOSE d \in Clock : TRUE,
                                             discord_notifier))
\* the list `results` of a run of the batch over `tickers`
ResultsOf(prog, tickers, feeds) ==
    RunLoop(prog, tickers, feeds, 1,
            [results |-> <<>>, discord_analyses |-> <<>>, locals |-> NoLocals]).results

\* C21: in a batch run the failure of one ticker does not affect the others:
\* every pass of the loop, failed or not, records one entry and moves on to the
\* next ticker, so that the entries are one per configured ticker in
\* configuration order; and without the failing ticker in the batch the
\* entries of the other tickers would be the same.
C21_FailureIsolated ==
    program \in {"main", "main_classic"} =>
        /\ Len(results) = loop_i - 1
        /\ \A k \in DOMAIN results : results[k].ticker = TICKERS[k]
        /\ LoopDone =>
               \A j \in DOMAIN results :
                   FailedEntry(program, results[j]) =>
                       RemoveAt(results, j) = ResultsOf(program, RemoveAt(TICKERS, j), RemoveAt(feed, j))

\* C21 witness: a run of main.py whose second ticker failed between two
\* tickers that were scored.
C21_Witness ==
    /\ LoopDone
    /\ program = "main"
    /\ Len(results) = Len(TICKERS)
    /\ results[1].score # NoneVal
    /\ results[2].score = NoneVal
    /\ results[3].score # NoneVal

\* what analyze and analyze_classic make of the provider's answer: the result
\* dictionary, or the error one of the two raised
ClassicOutcome(f) ==
    LET got == ClassicAnalyzer_analyze_result(f)
    IN  IF got.raised = "" THEN analyze_classic(got.value[1], got.value[2]) ELSE got
\* the narrative of the ticker at position k is queued for Discord
Queued(k) == \E q \in DOMAIN discord_analyses : discord_analyses[q].ticker = TICKERS[k]

\* C25: in the classic batch run every ticker for which analyze and
\* analyze_classic complete without error is recorded with success = True and
\* its narrative is queued for Discord; a ticker is recorded as failed only
\* when one of its own steps raised.
C25_ClassicSuccessRecorded ==
    program = "main_classic" =>
        \A k \in DOMAIN results :
            /\ ClassicOutcome(feed[k]).raised = "" => (results[k].success /\ Queued(k))
            /\ ~results[k].success => ClassicOutcome(feed[k]).raised # ""

---------------------------------------------------------------------------
(* Delivery of a batch *)

\* send_batch_analysis returned
BatchSent == delivery.done /\ delivery.called
\* a webhook URL is at hand for the item: its own or the notifier's
HasWebhook(item) == item.webhook_url # "" \/ discord_notifier.webhook_url # ""

\* C30: send_batch_analysis attempts the delivery of every item in list order,
\* going on after a delivery that failed, and returns True exactly when every
\* delivery succeeded; a delivery without any webhook URL returns False and
\* makes no HTTP request.
C30_EveryItemAttempted ==
    BatchSent =>
        /\ Len(delivery.attempts) = Len(discord_analyses)
        /\ \A k \in DOMAIN delivery.attempts :
               /\ delivery.attempts[k].ticker = discord_analyses[k].ticker
               /\ IF HasWebhook(discord_analyses[k])
                  THEN /\ Len(delivery.attempts[k].posts) = 1
                       /\ delivery.attempts[k].returned <=> discord_notifier.responses[k] = "ok"
                  ELSE /\ delivery.attempts[k].posts = <<>>
                       /\ ~delivery.attempts[k].returned
        /\ delivery.overall_success <=> \A k \in DOMAIN delivery.attempts : delivery.attempts[k].returned

\* C30 witness: a list of three whose first delivery is refused by the webhook
\* and whose second item has no webhook URL; the third is still delivered and
\* False is returned.
C30_Witness ==
    /\ BatchSent
    /\ Len(discord_analyses) = 3
    /\ ~delivery.attempts[1].returned /\ Len(delivery.attempts[1].posts) = 1
    /\ ~HasWebhook(discord_analyses[2]) /\ delivery.attempts[2].posts = <<>>
    /\ delivery.attempts[3].returned /\ Len(delivery.attempts[3].posts) = 1
    /\ ~delivery.overall_success


\* the message of call r is one the bot takes as a ticker request: not its
\* own, in the target channel when one is set, one word of 2 to 6 characters
\* of which the filter leaves something
AcceptedAsRequest(r) ==
    LET m == messages[r]
        word == strip(m.content)
    IN  /\ m.author # "bot"
        /\ TARGET_CHANNEL_ID # "" => m.channel = TARGET_CHANNEL_ID
        /\ \A i \in DOMAIN word : word[i] # " "
        /\ Len(word) >= 2 /\ Len(word) <= 6
        /\ TickerChars(word) # <<>>

\* call r of on_message is over
HandlerOver(r) == handler[r].pc \in {"ignored", "returned", "raised"}

\* the two ways a request may end
EndedWithEmbed(r) ==
    /\ Len(outputs[r].embeds) = 1
    /\ outputs[r].status_msg = "deleted"
EndedWithError(r) ==
    /\ outputs[r].embeds = <<>>
    /\ outputs[r].status_msg = IF handler[r].error = "ValueError" THEN "not found" ELSE "internal error"

\* C29: a call for an accepted message posts the status message before
\* anything else and, once over, has either sent the embed and deleted the
\* status message or sent no embed and edited the status message to the error
\* text of its exception; a call for any other message does nothing in the
\* channel.
C29_RequestEndsOneOfTwoWays ==
    \A r \in Requests :
        IF AcceptedAsRequest(r)
        THEN /\ handler[r].pc \notin {"start", "await status"} => outputs[r].calls # <<>>
             /\ outputs[r].calls # <<>> => outputs[r].calls[1] = "send status"
             /\ HandlerOver(r) =>
                    /\ EndedWithEmbed(r) \/ EndedWithError(r)
                    /\ ~(EndedWithEmbed(r) /\ EndedWithError(r))
        ELSE outputs[r] = NoOutput

=============================================================================
